---------------------------- MODULE Spec2Model ----------------------------
(***************************************************************************)
(* A model of the unified MCP gateway: the adaptive framing codec          *)
(* (src/src/transport.rs) and the Codex CLI orchestrator with its policy   *)
(* arbiter (src/src/tools/codex.rs, src/src/server.rs).                    *)
(*                                                                         *)
(* Bytes are one-character strings, byte strings are sequences of them.    *)
(* Rust's Option<T> is a sequence of length 0 (None) or 1 (Some).          *)
(***************************************************************************)
EXTENDS Integers, Sequences, FiniteSets, TLC

None == <<>>

Some(x) == <<x>>

IsSome(o) == Len(o) = 1

Unwrap(o) == o[1]

Min(S) == CHOOSE x \in S : \A y \in S : x <= y

RECURSIVE Concat(_)
Concat(ss) == IF ss = <<>> THEN <<>> ELSE Head(ss) \o Concat(Tail(ss))

StartsWith(s, p) == Len(s) >= Len(p) /\ SubSeq(s, 1, Len(p)) = p

EndsWith(s, p) == Len(s) >= Len(p) /\ SubSeq(s, Len(s) - Len(p) + 1, Len(s)) = p

\* s without its first n bytes (BytesMut::advance, the tail of split_to)
Drop(s, n) == SubSeq(s, n + 1, Len(s))

Take(s, n) == SubSeq(s, 1, n)

\* 0-based offset of the first occurrence of pattern p in s, or -1
FindSeq(s, p) ==
    LET hits == {i \in 1..(Len(s) - Len(p) + 1) : SubSeq(s, i, i + Len(p) - 1) = p}
    IN  IF hits = {} THEN -1 ELSE Min(hits) - 1

\* 0-based offset of the first byte of s in set B, or -1
FindByte(s, B) ==
    LET hits == {i \in 1..Len(s) : s[i] \in B}
    IN  IF hits = {} THEN -1 ELSE Min(hits) - 1

-----------------------------------------------------------------------------
(* Bytes and text conversions                                              *)

CR == "\r"

LF == "\n"

Digits == <<"0", "1", "2", "3", "4", "5", "6", "7", "8", "9">>

DigitSet == {Digits[i] : i \in 1..10}

DigitVal(c) == (CHOOSE i \in 1..10 : Digits[i] = c) - 1

\* u8::is_ascii_whitespace: space, \t, \n, form feed, \r
IsAsciiWhitespace(b) == b \in {" ", "\t", "\n", "\f", "\r"}

\* char::is_whitespace restricted to the bytes of the model
IsWhitespace(b) == b \in {" ", "\t", "\n", "\f", "\r"}

RECURSIVE TrimStart(_)
TrimStart(s) ==
    IF s # <<>> /\ IsWhitespace(Head(s)) THEN TrimStart(Tail(s)) ELSE s

RECURSIVE TrimEnd(_)
TrimEnd(s) ==
    IF s # <<>> /\ IsWhitespace(s[Len(s)]) THEN TrimEnd(Take(s, Len(s) - 1)) ELSE s

\* str::trim
Trim(s) == TrimEnd(TrimStart(s))

\* usize's Display: the decimal digits of n
RECURSIVE NatToDigits(_)
NatToDigits(n) ==
    IF n < 10 THEN <<Digits[n + 1]>>
    ELSE NatToDigits(n \div 10) \o <<Digits[(n % 10) + 1]>>

RECURSIVE DigitsToNat(_)
DigitsToNat(ds) ==
    IF ds = <<>> THEN 0
    ELSE 10 * DigitsToNat(Take(ds, Len(ds) - 1)) + DigitVal(ds[Len(ds)])

\* str::parse::<usize>: an optional '+', then one or more decimal digits
ParseUsize(s) ==
    LET ds == IF s # <<>> /\ Head(s) = "+" THEN Tail(s) ELSE s
    IN  IF ds # <<>> /\ \A i \in 1..Len(ds) : ds[i] \in DigitSet
        THEN Some(DigitsToNat(ds))
        ELSE None

\* str::lines: split at \n, a \r before the \n is dropped, no final empty line
RECURSIVE Lines(_)
Lines(s) ==
    IF s = <<>> THEN <<>>
    ELSE LET nl == FindByte(s, {LF})
             raw == IF nl < 0 THEN s ELSE Take(s, nl)
             line == IF raw # <<>> /\ raw[Len(raw)] = CR /\ nl >= 0
                     THEN Take(raw, Len(raw) - 1) ELSE raw
         IN  <<line>> \o (IF nl < 0 THEN <<>> ELSE Lines(Drop(s, nl + 1)))

-----------------------------------------------------------------------------
(* JSON values, and serde_json's compact serializer and parser             *)
(* A value is a record [t, n, s, kv]: t its type, n a number's value, s a  *)
(* string's characters, kv an object's members or an array's items, each   *)
(* [k |-> key characters, v |-> value].                                    *)

JNull == [t |-> "null", n |-> 0, s |-> <<>>, kv |-> <<>>]

JBool(b) == [t |-> "bool", n |-> IF b THEN 1 ELSE 0, s |-> <<>>, kv |-> <<>>]

JNum(x) == [t |-> "num", n |-> x, s |-> <<>>, kv |-> <<>>]

JStr(cs) == [t |-> "str", n |-> 0, s |-> cs, kv |-> <<>>]

JObj(members) == [t |-> "obj", n |-> 0, s |-> <<>>, kv |-> members]

JArr(items) == [t |-> "arr", n |-> 0, s |-> <<>>, kv |-> items]

Member(key, val) == [k |-> key, v |-> val]

Item(val) == [k |-> <<>>, v |-> val]

\* serde_json's string escapes for the characters of the model
EscapeChar(c) ==
    CASE c = "\"" -> <<"\\", "\"">>
      [] c = "\\" -> <<"\\", "\\">>
      [] c = "\n" -> <<"\\", "n">>
      [] c = "\r" -> <<"\\", "r">>
      [] c = "\t" -> <<"\\", "t">>
      [] c = "\f" -> <<"\\", "f">>
      [] OTHER -> <<c>>

RECURSIVE EscapeStr(_)
EscapeStr(cs) == IF cs = <<>> THEN <<>> ELSE EscapeChar(Head(cs)) \o EscapeStr(Tail(cs))

QuoteStr(cs) == <<"\"">> \o EscapeStr(cs) \o <<"\"">>

RECURSIVE ToJson(_)
RECURSIVE MembersToJson(_, _)
\* serde_json::to_vec / to_writer: compact, no whitespace, no raw control character
ToJson(v) ==
    CASE v.t = "null" -> <<"n", "u", "l", "l">>
      [] v.t = "bool" -> IF v.n = 1 THEN <<"t", "r", "u", "e">>
                         ELSE <<"f", "a", "l", "s", "e">>
      [] v.t = "num" -> NatToDigits(v.n)
      [] v.t = "str" -> QuoteStr(v.s)
      [] v.t = "obj" -> <<"{">> \o MembersToJson(v.kv, TRUE) \o <<"}">>
      [] v.t = "arr" -> <<"[">> \o MembersToJson(v.kv, FALSE) \o <<"]">>

MembersToJson(ms, keyed) ==
    IF ms = <<>> THEN <<>>
    ELSE (IF keyed THEN QuoteStr(Head(ms).k) \o <<":">> ELSE <<>>)
         \o ToJson(Head(ms).v)
         \o (IF Len(ms) > 1 THEN <<",">> ELSE <<>>)
         \o MembersToJson(Tail(ms), keyed)

IsJsonWs(b) == b \in {" ", "\t", "\n", "\r"}

RECURSIVE SkipJsonWs(_)
SkipJsonWs(s) == IF s # <<>> /\ IsJsonWs(Head(s)) THEN SkipJsonWs(Tail(s)) ELSE s

ParseFail == [ok |-> FALSE, val |-> JNull, rest |-> <<>>]

ParseOk(v, r) == [ok |-> TRUE, val |-> v, rest |-> r]

\* the characters of a string literal, s starting after the opening quote;
\* val carries the decoded characters in its s field
RECURSIVE ParseStrBody(_, _)
ParseStrBody(s, acc) ==
    IF s = <<>> THEN ParseFail
    ELSE LET c == Head(s)
         IN  CASE c = "\"" -> ParseOk(JStr(acc), Tail(s))
               [] c = "\\" ->
                    IF Len(s) < 2 THEN ParseFail
                    ELSE LET e == s[2]
                             d == CASE e = "n" -> Some("\n")
                                    [] e = "r" -> Some("\r")
                                    [] e = "t" -> Some("\t")
                                    [] e = "f" -> Some("\f")
                                    [] e = "\"" -> Some("\"")
                                    [] e = "\\" -> Some("\\")
                                    [] e = "/" -> Some("/")
                                    [] OTHER -> None
                         IN  IF IsSome(d)
                             THEN ParseStrBody(Drop(s, 2), Append(acc, Unwrap(d)))
                             ELSE ParseFail
               [] c \in {"\n", "\r", "\t", "\f"} -> ParseFail
               [] OTHER -> ParseStrBody(Tail(s), Append(acc, c))

\* serde_json's Map::insert: a repeated key keeps its place and takes the new value
MapInsert(ms, key, val) ==
    IF \E i \in 1..Len(ms) : ms[i].k = key
    THEN [i \in 1..Len(ms) |-> IF ms[i].k = key THEN Member(key, val) ELSE ms[i]]
    ELSE Append(ms, Member(key, val))

RECURSIVE ParseValue(_)
RECURSIVE ParseMembers(_, _)
RECURSIVE ParseItems(_, _)
ParseValue(s0) ==
    LET s == SkipJsonWs(s0)
    IN  IF s = <<>> THEN ParseFail
        ELSE LET c == Head(s)
             IN  CASE c = "{" ->
                        LET r == SkipJsonWs(Tail(s))
                        IN  IF r # <<>> /\ Head(r) = "}"
                            THEN ParseOk(JObj(<<>>), Tail(r))
                            ELSE ParseMembers(r, <<>>)
                   [] c = "[" ->
                        LET r == SkipJsonWs(Tail(s))
                        IN  IF r # <<>> /\ Head(r) = "]"
                            THEN ParseOk(JArr(<<>>), Tail(r))
                            ELSE ParseItems(r, <<>>)
                   [] c = "\"" -> ParseStrBody(Tail(s), <<>>)
                   [] c \in DigitSet ->
                        LET stop == FindByte(s, {b \in {s[i] : i \in 1..Len(s)} : b \notin DigitSet})
                            n == IF stop < 0 THEN Len(s) ELSE stop
                        IN  IF n > 1 /\ c = "0" THEN ParseFail
                            ELSE ParseOk(JNum(DigitsToNat(Take(s, n))), Drop(s, n))
                   [] StartsWith(s, <<"n", "u", "l", "l">>) /\ c = "n" ->
                        ParseOk(JNull, Drop(s, 4))
                   [] StartsWith(s, <<"t", "r", "u", "e">>) /\ c = "t" ->
                        ParseOk(JBool(TRUE), Drop(s, 4))
                   [] StartsWith(s, <<"f", "a", "l", "s", "e">>) /\ c = "f" ->
                        ParseOk(JBool(FALSE), Drop(s, 5))
                   [] OTHER -> ParseFail

\* s is at a member's key; acc holds the members read so far
ParseMembers(s, acc) ==
    IF s = <<>> \/ Head(s) # "\"" THEN ParseFail
    ELSE LET key == ParseStrBody(Tail(s), <<>>)
             afterKey == SkipJsonWs(key.rest)
         IN  IF ~key.ok \/ afterKey = <<>> \/ Head(afterKey) # ":" THEN ParseFail
             ELSE LET val == ParseValue(Tail(afterKey))
                      r == SkipJsonWs(val.rest)
                      acc2 == MapInsert(acc, key.val.s, val.val)
                  IN  IF ~val.ok \/ r = <<>> THEN ParseFail
                      ELSE IF Head(r) = "}" THEN ParseOk(JObj(acc2), Tail(r))
                      ELSE IF Head(r) = "," THEN ParseMembers(SkipJsonWs(Tail(r)), acc2)
                      ELSE ParseFail

ParseItems(s, acc) ==
    LET val == ParseValue(s)
        r == SkipJsonWs(val.rest)
        acc2 == Append(acc, Item(val.val))
    IN  IF ~val.ok \/ r = <<>> THEN ParseFail
        ELSE IF Head(r) = "]" THEN ParseOk(JArr(acc2), Tail(r))
        ELSE IF Head(r) = "," THEN ParseItems(Tail(r), acc2)
        ELSE ParseFail

\* serde_json::from_slice: one value, whitespace around it, nothing after it
FromSlice(bytes) ==
    LET r == ParseValue(bytes)
    IN  IF r.ok /\ SkipJsonWs(r.rest) = <<>> THEN Some(r.val) ELSE None

-----------------------------------------------------------------------------
(* The adaptive framing codec (src/src/transport.rs)                       *)

FramingFormat == {"JsonLines", "Lsp"}

\* b"Content-Length:"
CONTENT_LENGTH ==
    <<"C", "o", "n", "t", "e", "n", "t", "-", "L", "e", "n", "g", "t", "h", ":">>

\* b"\r\n\r\n"
SEPARATOR == <<CR, LF, CR, LF>>

\* AdaptiveCodec::new / with_shared_format; has_shared tells the two apart
NewCodec(shared) ==
    [detected_format |-> None, has_shared |-> shared, next_index |-> 0,
     is_discarding |-> FALSE, expected_content_length |-> None]

\* max_length is usize::MAX in both constructors: no buffer is longer
ExceedsMaxLength(n) == FALSE

\* detect_format taking "{" for the first byte of an LSP header
DetectFormatLspOnBrace(buf) ==
    LET trimmed == FindByte(buf, {b \in {buf[i] : i \in 1..Len(buf)} : ~IsAsciiWhitespace(b)})
        start == IF trimmed < 0 THEN 0 ELSE trimmed
    IN  IF Len(buf) <= start THEN None
        ELSE IF buf[start + 1] \in {"C", "{"} /\ Len(buf) - start >= 1 THEN Some("Lsp")
        ELSE Some("JsonLines")

detect_format(buf) ==
    LET trimmed == FindByte(buf, {b \in {buf[i] : i \in 1..Len(buf)} : ~IsAsciiWhitespace(b)})
        start == IF trimmed < 0 THEN 0 ELSE trimmed
    IN  IF Len(buf) <= start THEN None
        ELSE LET first_byte == buf[start + 1]
             IN  IF first_byte = "C" /\ StartsWith(Drop(buf, start), CONTENT_LENGTH)
                 THEN Some("Lsp")
                 ELSE IF first_byte = "C" /\ Len(buf) - start < 15 THEN None
                 ELSE Some("JsonLines")

\* the header loop looking at the first line of the block only
HeaderLengthOfFirstLine(lines) ==
    IF lines # <<>> /\ StartsWith(Trim(Head(lines)), CONTENT_LENGTH)
    THEN ParseUsize(Trim(Drop(Trim(Head(lines)), Len(CONTENT_LENGTH))))
    ELSE None

\* the loop over header lines: the first line with the prefix decides
RECURSIVE HeaderLength(_)
HeaderLength(lines) ==
    IF lines = <<>> THEN None
    ELSE LET line == Trim(Head(lines))
         IN  IF StartsWith(line, CONTENT_LENGTH)
             THEN ParseUsize(Trim(Drop(line, Len(CONTENT_LENGTH))))
             ELSE HeaderLength(Tail(lines))

\* parse_lsp_headers with the body starting at the separator, not after it
ParseLspHeadersAtSeparator(buf) ==
    LET sep_pos == FindSeq(buf, SEPARATOR)
    IN  IF sep_pos < 0 THEN None
        ELSE LET length == HeaderLength(Lines(Take(buf, sep_pos)))
             IN  IF IsSome(length)
                 THEN Some([length |-> Unwrap(length), body_start |-> sep_pos])
                 ELSE None

parse_lsp_headers(buf) ==
    LET sep_pos == FindSeq(buf, SEPARATOR)
    IN  IF sep_pos < 0 THEN None
        ELSE LET length == HeaderLength(Lines(Take(buf, sep_pos)))
             IN  IF IsSome(length)
                 THEN Some([length |-> Unwrap(length), body_start |-> sep_pos + Len(SEPARATOR)])
                 ELSE None

without_carriage_return(s) ==
    IF s # <<>> /\ s[Len(s)] = CR THEN Take(s, Len(s) - 1) ELSE s

\* Result<Option<T>, AdaptiveCodecError>
OkNone == [kind |-> "none", item |-> None, err |-> ""]

OkSome(v) == [kind |-> "some", item |-> Some(v), err |-> ""]

Err(e) == [kind |-> "err", item |-> None, err |-> e]

\* serde_json::from_slice(..)? inside decode
Deserialize(bytes) ==
    IF IsSome(FromSlice(bytes)) THEN OkSome(Unwrap(FromSlice(bytes))) ELSE Err("Serde")

Decoded(codec, buf, res) == [codec |-> codec, buf |-> buf, res |-> res]

\* the branch of decode_lsp taken when expected_content_length is Some
DecodeLspBody(codec, buf) ==
    LET content_length == Unwrap(codec.expected_content_length)
    IN  IF Len(buf) >= content_length
        THEN Decoded([codec EXCEPT !.expected_content_length = None],
                     Drop(buf, content_length),
                     Deserialize(Take(buf, content_length)))
        ELSE Decoded(codec, buf, OkNone)

decode_lsp(codec, buf) ==
    IF IsSome(codec.expected_content_length) THEN DecodeLspBody(codec, buf)
    ELSE LET h == parse_lsp_headers(buf)
         IN  IF IsSome(h)
             THEN DecodeLspBody(
                      [codec EXCEPT !.expected_content_length = Some(Unwrap(h).length)],
                      Drop(buf, Unwrap(h).body_start))
             ELSE Decoded(codec, buf, OkNone)

RECURSIVE decode_jsonl(_, _)
decode_jsonl(codec, buf) ==
    LET read_to == Len(buf)
        newline_offset == FindByte(SubSeq(buf, codec.next_index + 1, read_to), {LF})
    IN  IF codec.is_discarding /\ newline_offset >= 0
        THEN decode_jsonl([codec EXCEPT !.is_discarding = FALSE, !.next_index = 0],
                          Drop(buf, newline_offset + codec.next_index + 1))
        ELSE IF codec.is_discarding
        THEN Decoded([codec EXCEPT !.next_index = 0], <<>>, OkNone)
        ELSE IF newline_offset >= 0
        THEN LET newline_index == newline_offset + codec.next_index
                 line == without_carriage_return(Take(buf, newline_index))
                 rest == Drop(buf, newline_index + 1)
                 c2 == [codec EXCEPT !.next_index = 0]
             IN  IF line = <<>> THEN decode_jsonl(c2, rest)
                 ELSE Decoded(c2, rest, Deserialize(line))
        ELSE IF ExceedsMaxLength(Len(buf))
        THEN Decoded([codec EXCEPT !.is_discarding = TRUE], buf, Err("MaxLineLengthExceeded"))
        ELSE Decoded([codec EXCEPT !.next_index = read_to], buf, OkNone)

\* the match at the end of decode, once detected_format is Some
Dispatch(codec, buf) ==
    IF Unwrap(codec.detected_format) = "Lsp" THEN decode_lsp(codec, buf)
    ELSE decode_jsonl(codec, buf)

\* Decoder::decode of a codec that has no shared cell to store into
decode(codec, buf) ==
    IF buf = <<>> THEN Decoded(codec, buf, OkNone)
    ELSE IF IsSome(codec.detected_format) THEN Dispatch(codec, buf)
    ELSE IF IsSome(detect_format(buf))
         THEN Dispatch([codec EXCEPT !.detected_format = detect_format(buf)], buf)
    ELSE Decoded(codec, buf, OkNone)

\* encode never consulting the shared cell
EncodeFormatOwnOnly(codec, read) ==
    IF IsSome(codec.detected_format) THEN Unwrap(codec.detected_format) ELSE "JsonLines"

\* the format encode settles on: the codec's own, else what try_read gave, else JsonLines
EncodeFormat(codec, read) ==
    IF IsSome(codec.detected_format) THEN Unwrap(codec.detected_format)
    ELSE IF IsSome(read) THEN Unwrap(read)
    ELSE "JsonLines"

LspHeader(n) ==
    CONTENT_LENGTH \o <<" ">> \o NatToDigits(n) \o SEPARATOR

\* encode leaving out the newline that ends a JsonLines frame
EncodeFrameNoNewline(format, item) ==
    IF format = "Lsp" THEN LspHeader(Len(ToJson(item))) \o ToJson(item)
    ELSE ToJson(item)

\* the bytes encode appends to the write buffer
EncodeFrame(format, item) ==
    IF format = "Lsp" THEN LspHeader(Len(ToJson(item))) \o ToJson(item)
    ELSE ToJson(item) \o <<LF>>

-----------------------------------------------------------------------------
(* One connection: AdaptiveTransport::new builds a reading codec and a      *)
(* writing codec around one shared format cell (lines 331-343).            *)

VARIABLES
    stream,        \* every byte the peer sends on this connection
    inbound,       \* the bytes of stream not yet read from the transport
    rbuf,          \* FramedRead's buffer
    readable,      \* FramedRead's is_readable: decode is called while it holds
    rcodec,        \* the reading codec
    rpc,           \* where the read half is: idle, storing, dispatch, closed
    cell,          \* the shared RwLock<Option<FramingFormat>>
    lock,          \* who holds the RwLock: free, read (the encoder), write (the decoder)
    wcodec,        \* the writing codec
    wpc,           \* where the write half is: idle, reading
    wcall,         \* the encode call in progress: its item, and what decode had detected
    outbound,      \* the frames encoded so far, each with what encode saw
    received,      \* the items decode has yielded, in order
    firstDecode,   \* the first decode call: buffer before, buffer after, result
    store_failed,  \* the decoder's try_write met contention
    retried        \* after a failed store, a later decode call yielded a message, the lock free

codecVars ==
    <<stream, inbound, rbuf, readable, rcodec, rpc, cell, lock, wcodec, wpc, wcall,
      outbound, received, firstDecode, store_failed, retried>>

\* One codex tool call (server.rs) and one run of the Codex CLI (tools/codex.rs);
\* the connection's actions leave them alone.
VARIABLES
    call,              \* the tool call: its arguments, the environment, the file system
    reply,             \* what the codex handler did with the call
    opts,              \* the Options codex::run was called with
    xpc,               \* where run is: init, spawned, draining, waiting, returned
    cmd,               \* the Command built by run_internal
    stdin_data,        \* what was written to the child's stdin
    child,             \* the spawned process: none, running, exited, killed
    descendants,       \* the processes the child started: none, running, exited
    exit_code,         \* the child's exit code, once it exited by itself
    result,            \* run_internal's CodexResult
    all_messages_size, \* run_internal's all_messages_size
    parse_error_seen,  \* run_internal's parse_error_seen
    stdout_lines,      \* how many stdout lines the loop has read
    stdout_seen,       \* the stdout lines the loop has read, in order, where a record is kept
    stderr_output,     \* the stderr task's stderr_output
    stderr_truncated,  \* the stderr task's truncated
    stderr_lines,      \* how many stderr lines the task has read
    stderr_done,       \* the stderr task has finished
    returned,          \* what run returned
    timed_out          \* run's timeout elapsed before run_internal finished

handlerVars == <<call, reply>>

codexVars ==
    <<opts, xpc, cmd, stdin_data, child, descendants, exit_code, result,
      all_messages_size, parse_error_seen, stdout_lines, stdout_seen, stderr_output,
      stderr_truncated, stderr_lines, stderr_done, returned, timed_out>>

\* One run of the Gemini CLI (tools/gemini.rs).
VARIABLES
    gemini_opts,      \* the Options gemini::run was called with
    gemini_pc,        \* where run is: idle, init, spawned, reading, killing, grace, returned
    gemini_child,     \* the spawned process: none, running, exited, killed, dead
    gemini_exit,      \* the child's exit code, once it exited by itself
    gemini_result,    \* run_with_child's GeminiResult
    gemini_stderr,    \* run_with_child's stderr_output and stderr_truncated
    non_json_lines,   \* run_with_child's non_json_lines
    valid_json_seen,  \* run_with_child's valid_json_seen
    stdout_closed,    \* run_with_child's stdout_closed
    stderr_closed,    \* run_with_child's stderr_closed
    gemini_reads,     \* how many stdout and stderr lines the loop has read
    gemini_returned   \* what run returned

geminiVars ==
    <<gemini_opts, gemini_pc, gemini_child, gemini_exit, gemini_result, gemini_stderr,
      non_json_lines, valid_json_seen, stdout_closed, stderr_closed, gemini_reads,
      gemini_returned>>

\* One call of the HTTP streamer (tools/grok/provider.rs).
VARIABLES
    grok_cfg,       \* Config's retry_max_attempts, retry_multiplier, retry_max_wait
    grok_pc,        \* where execute_stream_with_retry is: idle, sending, returned, panicked
    attempt,        \* the loop's attempt
    grok_log,       \* the requests sent: what came back, and the wait slept after it
    grok_returned   \* what execute_stream_with_retry returned

\* The reader of a streamed response body (tools/grok/provider.rs
\* parse_streaming_response)
VARIABLES
    sse_pc,           \* where parse_streaming_response is: idle, reading, returned
    sse_sent,         \* the body the server sent: its lines as sent, and its bytes
    chunks_left,      \* the chunks response.chunk() has still to return
    line_buf,         \* line_buf: the decoded text not yet cut into lines
    sse_content,      \* content: the text accumulated, and returned in the end
    full_body_lines,  \* full_body_lines: the non-empty lines read so far
    finished          \* finished: a terminating line has been read

sseVars ==
    <<sse_pc, sse_sent, chunks_left, line_buf, sse_content, full_body_lines, finished>>

grokVars == <<grok_cfg, grok_pc, attempt, grok_log, grok_returned, sseVars>>

\* The pipes between one run and its child (tools/codex.rs run_internal,
\* tools/gemini.rs run and run_with_child): what is in them, who reads them.
VARIABLES
    io_cli,          \* the CLI this run starts: none, codex, gemini
    io_pc,           \* where the run is: idle, writing, draining, waiting, returned
    prompt_left,     \* the chunks of the prompt write_all has still to write
    stdin_pipe,      \* the chunks written to the child's stdin and not yet read
    stdout_pipe,     \* the lines the child wrote to stdout, not yet read
    stderr_pipe,     \* the lines the child wrote to stderr, not yet read
    stdout_reading,  \* the stdout loop: unstarted, reading, eof, failed
    stderr_reading,  \* the stderr task or select arm: unstarted, reading, eof, failed
    flagged,         \* the caps reached and the line errors recorded so far
    kid,             \* the child: whether it runs, what it does next, the steps it took
    io_returned      \* how the run ended: none, ok, err, BrokenPipe (an err), timeout

pipeVars ==
    <<io_cli, io_pc, prompt_left, stdin_pipe, stdout_pipe, stderr_pipe, stdout_reading,
      stderr_reading, flagged, kid, io_returned>>

toolVars == <<handlerVars, codexVars, geminiVars, grokVars, pipeVars>>

\* the most frames one connection encodes
MaxSends == 1

EmptyObj == JObj(<<>>)

IdObj(n) == JObj(<<Member(<<"i", "d">>, JNum(n))>>)

\* the items the write half is asked to send
SendItems == {EmptyObj, JStr(<<"C", "\n">>)}

JsonlOf(v) == ToJson(v) \o <<LF>>

\* a frame as a peer writes it: Content-Length:<ws><n>\r\n\r\n<body>
LspFrameOf(ws, body) ==
    CONTENT_LENGTH \o ws \o NatToDigits(Len(body)) \o SEPARATOR \o body

\* what peers send on the connections with both halves running
ConnStreams ==
    { JsonlOf(EmptyObj) \o JsonlOf(IdObj(1)),
      <<" ", LF>> \o JsonlOf(EmptyObj) \o JsonlOf(EmptyObj),
      LspFrameOf(<<" ">>, ToJson(EmptyObj)) \o LspFrameOf(<<>>, ToJson(IdObj(1))) }

ConnInit(streams) ==
    /\ stream \in streams
    /\ inbound = stream
    /\ rbuf = <<>>
    /\ readable = FALSE
    /\ rcodec = NewCodec(TRUE)
    /\ rpc = "idle"
    /\ cell = None
    /\ lock = "free"
    /\ wcodec = NewCodec(TRUE)
    /\ wpc = "idle"
    /\ wcall = None
    /\ outbound = <<>>
    /\ received = <<>>
    /\ firstDecode = None
    /\ store_failed = FALSE
    /\ retried = FALSE

\* FramedRead reads some bytes from the transport into its buffer
Feed ==
    /\ rpc = "idle"
    /\ ~readable
    /\ inbound # <<>>
    /\ \E k \in 1..Len(inbound) :
          /\ rbuf' = rbuf \o Take(inbound, k)
          /\ inbound' = Drop(inbound, k)
    /\ readable' = TRUE
    /\ UNCHANGED <<stream, rcodec, rpc, cell, lock, wcodec, wpc, wcall, outbound,
                   received, firstDecode, store_failed, retried>>
    /\ UNCHANGED toolVars

\* what FramedRead does with the value a decode call returned
FinishDecode(before, d, later) ==
    /\ rcodec' = d.codec
    /\ rbuf' = d.buf
    /\ readable' = (d.res.kind = "some")
    /\ rpc' = IF d.res.kind = "err" THEN "closed" ELSE "idle"
    /\ received' = IF d.res.kind = "some" THEN Append(received, Unwrap(d.res.item))
                   ELSE received
    /\ firstDecode' = IF firstDecode = None
                      THEN Some([before |-> before, after |-> d.buf, res |-> d.res])
                      ELSE firstDecode
    /\ retried' = (retried \/ (later /\ store_failed /\ lock = "free" /\ d.res.kind = "some"))

\* decode, lines 172-200, up to the attempt to take the cell's write lock
DecodeCall ==
    /\ rpc = "idle"
    /\ readable
    /\ IF rbuf = <<>> \/ (rcodec.detected_format = None /\ detect_format(rbuf) = None)
       THEN /\ FinishDecode(rbuf, Decoded(rcodec, rbuf, OkNone), FALSE)
            /\ UNCHANGED <<cell, lock, store_failed>>
       ELSE IF IsSome(rcodec.detected_format)
       THEN /\ FinishDecode(rbuf, Dispatch(rcodec, rbuf), TRUE)
            /\ UNCHANGED <<cell, lock, store_failed>>
       ELSE /\ rcodec' = [rcodec EXCEPT !.detected_format = detect_format(rbuf)]
            /\ IF lock = "free"
               THEN /\ lock' = "write"
                    /\ rpc' = "storing"
                    /\ UNCHANGED store_failed
               ELSE /\ rpc' = "dispatch"
                    /\ store_failed' = TRUE
                    /\ UNCHANGED lock
            /\ UNCHANGED <<rbuf, readable, cell, received, firstDecode, retried>>
    /\ UNCHANGED <<stream, inbound, wcodec, wpc, wcall, outbound>>
    /\ UNCHANGED toolVars

\* *guard = Some(fmt), and the guard is dropped (lines 187-189)
DecodeStore ==
    /\ rpc = "storing"
    /\ cell' = rcodec.detected_format
    /\ lock' = "free"
    /\ rpc' = "dispatch"
    /\ UNCHANGED <<stream, inbound, rbuf, readable, rcodec, wcodec, wpc, wcall,
                   outbound, received, firstDecode, store_failed, retried>>
    /\ UNCHANGED toolVars

\* the rest of the decode call that detected the format (lines 196-199)
DecodeDispatch ==
    /\ rpc = "dispatch"
    /\ FinishDecode(rbuf, Dispatch(rcodec, rbuf), FALSE)
    /\ UNCHANGED <<stream, inbound, cell, lock, wcodec, wpc, wcall, outbound, store_failed>>
    /\ UNCHANGED toolVars

\* one encoded frame, with what the encode call saw
Sent(item, detected, read, contended) ==
    [bytes |-> EncodeFrame(EncodeFormat(wcodec, read), item),
     item |-> item,
     detected_at_call |-> detected,
     read |-> read,
     contended |-> contended]

\* encode, lines 281-290: the codec's own format, else try_read on the cell
EncodeBegin ==
    /\ wpc = "idle"
    /\ Len(outbound) < MaxSends
    /\ \E item \in SendItems :
          IF IsSome(wcodec.detected_format) \/ lock = "write"
          THEN /\ outbound' = Append(outbound,
                                      Sent(item, rcodec.detected_format, None, lock = "write"))
               /\ UNCHANGED <<wpc, wcall, lock>>
          ELSE /\ lock' = "read"
               /\ wpc' = "reading"
               /\ wcall' = Some([item |-> item, detected |-> rcodec.detected_format])
               /\ UNCHANGED outbound
    /\ UNCHANGED <<stream, inbound, rbuf, readable, rcodec, rpc, cell, wcodec,
                   received, firstDecode, store_failed, retried>>
    /\ UNCHANGED toolVars

\* the read guard is read and dropped, and the frame is written (lines 288-306)
EncodeEnd ==
    /\ wpc = "reading"
    /\ outbound' = Append(outbound,
                           Sent(Unwrap(wcall).item, Unwrap(wcall).detected, cell, FALSE))
    /\ lock' = "free"
    /\ wpc' = "idle"
    /\ wcall' = None
    /\ UNCHANGED <<stream, inbound, rbuf, readable, rcodec, rpc, cell, wcodec,
                   received, firstDecode, store_failed, retried>>
    /\ UNCHANGED toolVars

ConnNext ==
    \/ Feed
    \/ DecodeCall
    \/ DecodeStore
    \/ DecodeDispatch
    \/ EncodeBegin
    \/ EncodeEnd

-----------------------------------------------------------------------------
(* The read half alone, on a wider set of inbound streams                  *)

\* the whitespace a peer puts between "Content-Length:" and the number
HeaderWs == {<<>>, <<" ">>, <<" ", " ">>, <<"\t">>}

\* frame bodies: compact JSON, JSON with whitespace, a two-digit length, not JSON
FrameBodies ==
    { ToJson(EmptyObj),
      ToJson(IdObj(1)),
      <<"{", "\"", "i", "d", "\"", ":", " ", "2", "}">>,
      ToJson(JObj(<<Member(<<"m">>, JStr(<<"C", "\n">>))>>)),
      <<" ", "7">>,
      <<"{", "x">> }

\* what follows the first frame on the stream
FrameTrailers == {<<>>, <<"X">>, LspFrameOf(<<" ">>, ToJson(IdObj(2)))}

LspStreams ==
    {LspFrameOf(ws, body) \o t : ws \in HeaderWs, body \in FrameBodies, t \in FrameTrailers}

JsonlStreams ==
    { JsonlOf(IdObj(1)) \o JsonlOf(IdObj(2)),
      ToJson(IdObj(1)) \o <<CR, LF, LF>> \o JsonlOf(EmptyObj),
      <<" ", LF, " ">> \o JsonlOf(IdObj(1)),
      JsonlOf(JArr(<<Item(JNum(1))>>)),
      <<"{", "x", LF>> \o JsonlOf(EmptyObj) }

\* frames behind leading whitespace, with a second header, and unframed text
OtherStreams ==
    { <<" ", " ">> \o LspFrameOf(<<" ">>, ToJson(EmptyObj)),
      CONTENT_LENGTH \o <<" ", "2", CR, LF, "A", ":", "b">> \o SEPARATOR \o ToJson(EmptyObj),
      <<"C", "o", "n", "t", "e", "n", "t", LF>> \o JsonlOf(EmptyObj) }

DecodeStreams == LspStreams \cup JsonlStreams \cup OtherStreams

DecodeNext ==
    \/ Feed
    \/ DecodeCall
    \/ DecodeStore
    \/ DecodeDispatch

-----------------------------------------------------------------------------
(* Round trip: a codec set to a format encodes one value, a codec made by   *)
(* AdaptiveCodec::new decodes the bytes (the tests at lines 487-546).      *)

RoundTripValues ==
    { JNull, JBool(TRUE), JBool(FALSE), JNum(0), JNum(7), JNum(120),
      JStr(<<>>), JStr(<<"C">>), JStr(CONTENT_LENGTH), JStr(<<"a", "\n", "b">>),
      JStr(SEPARATOR), JStr(<<"\"", "\\">>), JStr(<<"{">>),
      EmptyObj, IdObj(1), JArr(<<>>), JArr(<<Item(JNum(1)), Item(JStr(<<"x">>))>>),
      JObj(<<Member(<<"a">>, JObj(<<Member(<<"b">>, JArr(<<Item(JNull)>>))>>)),
             Member(<<"c">>, JStr(<<"\r", "\n">>))>>) }

RoundTripInit ==
    /\ stream = <<>>
    /\ inbound = <<>>
    /\ rbuf = <<>>
    /\ readable = FALSE
    /\ rcodec = NewCodec(FALSE)
    /\ rpc = "idle"
    /\ cell = None
    /\ lock = "free"
    /\ \E f \in FramingFormat : wcodec = [NewCodec(FALSE) EXCEPT !.detected_format = Some(f)]
    /\ wpc = "idle"
    /\ wcall = None
    /\ outbound = <<>>
    /\ received = <<>>
    /\ firstDecode = None
    /\ store_failed = FALSE
    /\ retried = FALSE

\* encode one value; the bytes are what the decoding side will read
RtEncode ==
    /\ outbound = <<>>
    /\ \E item \in RoundTripValues :
          /\ outbound' = <<Sent(item, None, None, FALSE)>>
          /\ stream' = EncodeFrame(EncodeFormat(wcodec, None), item)
          /\ inbound' = stream'
    /\ UNCHANGED <<rbuf, readable, rcodec, rpc, cell, lock, wcodec, wpc, wcall,
                   received, firstDecode, store_failed, retried>>
    /\ UNCHANGED toolVars

\* a decode call of the codec without a shared cell
RtDecode ==
    /\ rpc = "idle"
    /\ readable
    /\ FinishDecode(rbuf, decode(rcodec, rbuf), FALSE)
    /\ UNCHANGED <<stream, inbound, cell, lock, wcodec, wpc, wcall, outbound, store_failed>>
    /\ UNCHANGED toolVars

RoundTripNext ==
    \/ RtEncode
    \/ Feed
    \/ RtDecode


-----------------------------------------------------------------------------
(* The read half on streams of LSP frames: a frame is a header block, ended *)
(* by \r\n\r\n, and a body.                                                  *)

\* the most frames on one stream
MaxFrames == 2

\* a header block of the lines, each ended by \r\n, and the empty line
HeaderBlock(lines) ==
    Concat([i \in DOMAIN lines |-> lines[i] \o <<CR, LF>>]) \o <<CR, LF>>

LspFrame(lines, body) == [header |-> HeaderBlock(lines), body |-> body]

ContentLengthLine(ws, n) == CONTENT_LENGTH \o ws \o NatToDigits(n)

OtherHeaderLine == <<"A", ":", "b">>

\* well-formed frames: Content-Length before and after another header, and
\* alone with a body that holds \r\n\r\n
LspFrames ==
    { LspFrame(<<ContentLengthLine(<<" ">>, 2), OtherHeaderLine>>, ToJson(EmptyObj)),
      LspFrame(<<OtherHeaderLine, ContentLengthLine(<<>>, 2)>>, ToJson(EmptyObj)),
      LspFrame(<<ContentLengthLine(<<>>, 6)>>, <<"{", CR, LF, CR, LF, "}">>) }

LspFrameLists ==
    UNION {[1..n -> LspFrames] : n \in 1..MaxFrames}

FrameBytes(f) == f.header \o f.body

StreamOf(frames) == Concat([i \in DOMAIN frames |-> FrameBytes(frames[i])])

LspFrameStreams == {StreamOf(frames) : frames \in LspFrameLists}

\* frames whose complete header block has no Content-Length header, or one
\* whose value is no base-10 unsigned integer, alone and behind a good frame
BrokenHeaderBlocks ==
    { HeaderBlock(<<CONTENT_LENGTH \o <<" ", "x">>>>),
      HeaderBlock(<<CONTENT_LENGTH>>),
      HeaderBlock(<<CONTENT_LENGTH \o <<" ", "-", "2">>>>),
      HeaderBlock(<<CONTENT_LENGTH \o <<" ", "0", "x", "2">>, OtherHeaderLine>>) }

HeaderBlocksWithoutLength ==
    { HeaderBlock(<<OtherHeaderLine>>),
      HeaderBlock(<<<<"c", "o", "n", "t", "e", "n", "t", "-", "l", "e", "n", "g", "t", "h", ":", "2">>>>) }

BrokenLspStreams ==
    { h \o ToJson(EmptyObj) : h \in BrokenHeaderBlocks }
    \cup { LspFrameOf(<<" ">>, ToJson(EmptyObj)) \o h \o ToJson(EmptyObj) :
             h \in BrokenHeaderBlocks \cup HeaderBlocksWithoutLength }

LspNext ==
    \/ Feed
    \/ DecodeCall
    \/ DecodeStore
    \/ DecodeDispatch
-----------------------------------------------------------------------------
(* The Codex CLI orchestrator (src/src/tools/codex.rs).                     *)
(*                                                                         *)
(* A text whose bytes are not inspected one by one is a sequence of pieces, *)
(* each with a name and its length in bytes; the empty text is <<>>.  In a  *)
(* prompt every shell-unsafe character is a piece of its own.               *)

Text(k, n) == IF n = 0 THEN <<>> ELSE <<[k |-> k, n |-> n, v |-> 0]>>

\* a number formatted with {}
Number(x) == <<[k |-> "{}", n |-> Len(NatToDigits(x)), v |-> x]>>

RECURSIVE StrLen(_)
StrLen(s) == IF s = <<>> THEN 0 ELSE Head(s).n + StrLen(Tail(s))

NL == Text("\n", 1)

Contains(s, p) == FindSeq(s, p) >= 0

MAX_CLI_PROMPT_LEN == 800

\* the grave accent cannot be written in a string here and goes by its name
SPECIAL_CHARS ==
    {"\n", "\\", "\"", "'", "grave", "$", "%", "^", "!", "&", "|", "<", ">", "(", ")"}

\* needs_stdin_mode looking at the length only
NeedsStdinByLength(prompt) == StrLen(prompt) > MAX_CLI_PROMPT_LEN

needs_stdin_mode(prompt) ==
    \/ StrLen(prompt) > MAX_CLI_PROMPT_LEN
    \/ \E i \in DOMAIN prompt : prompt[i].k \in SPECIAL_CHARS

DEFAULT_TIMEOUT_SECS == 600

MAX_TIMEOUT_SECS == 3600

normalize_timeout_secs(timeout_secs) ==
    IF timeout_secs = None \/ timeout_secs = Some(0) THEN DEFAULT_TIMEOUT_SECS
    ELSE IF Unwrap(timeout_secs) > MAX_TIMEOUT_SECS THEN MAX_TIMEOUT_SECS
    ELSE Unwrap(timeout_secs)

MAX_MESSAGE_LIMIT == 50000

DEFAULT_MESSAGE_LIMIT == 10000

MAX_AGENT_MESSAGES_SIZE == 10485760

MAX_ALL_MESSAGES_SIZE == 52428800

MAX_STDERR_SIZE == 1048576

MAX_LINE_LENGTH == 1048576

\* the CodexResult run_internal starts from
NewResult ==
    [success |-> TRUE, session_id |-> <<>>, agent_messages |-> <<>>,
     agent_messages_truncated |-> FALSE, all_messages |-> <<>>,
     all_messages_truncated |-> FALSE, error |-> None, warnings |-> None]

\* the CodexResult run builds when the timeout elapses
TimeoutResult(timeout_secs) ==
    [NewResult EXCEPT
        !.success = FALSE,
        !.error = Some(Text("Codex execution timed out after ", 32)
                       \o Number(timeout_secs) \o Text(" seconds", 8))]

push_warning(existing, warning) ==
    IF IsSome(existing)
    THEN Some((IF Unwrap(existing) # <<>> THEN Unwrap(existing) \o NL ELSE <<>>)
              \o warning)
    ELSE Some(warning)

\* enforce_required_fields with the mode ignored
EnforceAlways(res, mode) ==
    [res EXCEPT
        !.warnings = push_warning(res.warnings,
                                  Text("No agent_messages returned; ...", 89))]

\* enforce_required_fields with every mode taken for Skip
EnforceNever(res, mode) == res

enforce_required_fields(res, mode) ==
    IF mode = "Skip" THEN res
    ELSE
        LET r1 == IF res.session_id = <<>> /\ res.error = None
                  THEN [res EXCEPT
                          !.success = FALSE,
                          !.error = Some(Text("Failed to get SESSION_ID from the codex session.",
                                              48))]
                  ELSE res
        IN  IF r1.agent_messages = <<>>
            THEN [r1 EXCEPT
                    !.warnings = push_warning(r1.warnings,
                                              Text("No agent_messages returned; ...", 89))]
            ELSE r1

record_parse_error(res, error, line) ==
    LET parse_msg == Text("JSON parse error: ", 18) \o error \o Text(". Line: ", 8) \o line
    IN  [res EXCEPT
            !.success = FALSE,
            !.error = IF IsSome(res.error) /\ Unwrap(res.error) # <<>>
                      THEN Some(Unwrap(res.error) \o NL \o parse_msg)
                      ELSE Some(parse_msg)]

\* what read_line_with_limit reports for a line of n bytes, its newline included
read_line_with_limit(n, max_len) ==
    [bytes_read |-> IF n < max_len THEN n ELSE max_len, truncated |-> n > max_len]

\* A stdout line parsed by serde_json, as far as the loop looks into it: is_map says
\* the value is an object, size is the length of its serialization, error_obj that
\* "error" is an object, and the other fields are the strings found, if any.
Event(is_map, type, thread_id, item_type, item_text, error_obj, error_message, message, size) ==
    [is_map |-> is_map, type |-> type, thread_id |-> thread_id,
     item_type |-> item_type, item_text |-> item_text, error_obj |-> error_obj,
     error_message |-> error_message, message |-> message, size |-> size]

\* a line the child writes: n bytes with the newline, text without it, and the
\* value serde_json::from_str gives for text, if it is JSON
Line(n, text, parsed) == [n |-> n, text |-> text, parsed |-> parsed]

JsonLine(name, ev, size) == Line(size + 1, Text(name, size), Some(ev))

message_limit(o) ==
    Min({IF o.return_all_messages_limit = None THEN DEFAULT_MESSAGE_LIMIT
         ELSE Unwrap(o.return_all_messages_limit),
         MAX_MESSAGE_LIMIT})

\* the copy into all_messages with the check of the total size left out
CollectMessageUnsized(st, ev, o) ==
    IF ~o.return_all_messages THEN st
    ELSE IF Len(st.result.all_messages) < message_limit(o)
    THEN IF ev.is_map
         THEN [st EXCEPT !.all_messages_size = @ + ev.size,
                         !.result.all_messages = Append(@, ev)]
         ELSE st
    ELSE [st EXCEPT !.result.all_messages_truncated = TRUE]

\* the copy into all_messages with the check of the item count left out
CollectMessageUncounted(st, ev, o) ==
    IF ~o.return_all_messages \/ ~ev.is_map THEN st
    ELSE IF st.all_messages_size + ev.size <= MAX_ALL_MESSAGES_SIZE
    THEN [st EXCEPT !.all_messages_size = @ + ev.size,
                    !.result.all_messages = Append(@, ev)]
    ELSE [st EXCEPT !.result.all_messages_truncated = TRUE]

\* lines 361-378: the copy into all_messages
CollectMessage(st, ev, o) ==
    IF ~o.return_all_messages THEN st
    ELSE IF Len(st.result.all_messages) < message_limit(o)
    THEN IF ev.is_map
         THEN IF st.all_messages_size + ev.size <= MAX_ALL_MESSAGES_SIZE
              THEN [st EXCEPT !.all_messages_size = @ + ev.size,
                              !.result.all_messages = Append(@, ev)]
              ELSE [st EXCEPT !.result.all_messages_truncated = TRUE]
         ELSE st
    ELSE [st EXCEPT !.result.all_messages_truncated = TRUE]

\* the session id taken from the first event that has one
CollectFirstThreadId(r, ev) ==
    IF IsSome(ev.thread_id) /\ Unwrap(ev.thread_id) # <<>> /\ r.session_id = <<>>
    THEN [r EXCEPT !.session_id = Unwrap(ev.thread_id)]
    ELSE r

\* lines 380-384: the session id
CollectThreadId(r, ev) ==
    IF IsSome(ev.thread_id) /\ Unwrap(ev.thread_id) # <<>>
    THEN [r EXCEPT !.session_id = Unwrap(ev.thread_id)]
    ELSE r

\* the assistant's text gathered with no look at agent_messages_truncated
CollectAgentMessageUnflagged(r, ev) ==
    IF ev.item_type = Some("agent_message") /\ IsSome(ev.item_text)
    THEN LET text == Unwrap(ev.item_text)
         IN  IF StrLen(r.agent_messages) + StrLen(text) > MAX_AGENT_MESSAGES_SIZE
             THEN [r EXCEPT
                     !.agent_messages =
                         @ \o Text("\n[... Agent messages truncated due to size limit ...]", 53),
                     !.agent_messages_truncated = TRUE]
             ELSE [r EXCEPT
                     !.agent_messages =
                         @ \o (IF @ # <<>> /\ text # <<>> THEN NL ELSE <<>>) \o text]
    ELSE r

\* lines 386-407: the assistant's text
CollectAgentMessage(r, ev) ==
    IF ev.item_type = Some("agent_message") /\ IsSome(ev.item_text)
    THEN LET text == Unwrap(ev.item_text)
             new_size == StrLen(r.agent_messages) + StrLen(text)
         IN  IF new_size > MAX_AGENT_MESSAGES_SIZE
             THEN IF ~r.agent_messages_truncated
                  THEN [r EXCEPT
                          !.agent_messages =
                              @ \o Text("\n[... Agent messages truncated due to size limit ...]",
                                        53),
                          !.agent_messages_truncated = TRUE]
                  ELSE r
             ELSE IF ~r.agent_messages_truncated
                  THEN [r EXCEPT
                          !.agent_messages =
                              @ \o (IF @ # <<>> /\ text # <<>> THEN NL ELSE <<>>) \o text]
                  ELSE r
    ELSE r

\* lines 409-422: a fail or error event
DetectFailure(r, ev) ==
    IF /\ IsSome(ev.type)
       /\ \/ Contains(Unwrap(ev.type), <<"f", "a", "i", "l">>)
          \/ Contains(Unwrap(ev.type), <<"e", "r", "r", "o", "r">>)
    THEN LET failed == [r EXCEPT !.success = FALSE]
         IN  IF ev.error_obj
             THEN IF IsSome(ev.error_message)
                  THEN [failed EXCEPT
                          !.error = Some(Text("codex error: ", 13) \o Unwrap(ev.error_message))]
                  ELSE failed
             ELSE IF IsSome(ev.message)
                  THEN [failed EXCEPT
                          !.error = Some(Text("codex error: ", 13) \o Unwrap(ev.message))]
                  ELSE failed
    ELSE r

\* One turn of the stdout loop for a line read (lines 317-423): st holds result,
\* all_messages_size and parse_error_seen; kill says that start_kill was called.
StdoutStep(st, line, o) ==
    LET read == read_line_with_limit(line.n, MAX_LINE_LENGTH)
        quiet == [st EXCEPT !.kill = FALSE]
    IN  IF read.truncated
        THEN [st EXCEPT
                !.result.success = FALSE,
                !.result.error = Some(Text("Output line exceeded ", 21)
                                      \o Number(MAX_LINE_LENGTH)
                                      \o Text(" byte limit and was truncated, cannot parse JSON.",
                                              49)),
                !.parse_error_seen = TRUE,
                !.kill = ~st.parse_error_seen]
        ELSE IF line.text = <<>> \/ st.parse_error_seen THEN quiet
        ELSE IF line.parsed = None
        THEN [st EXCEPT
                !.result = record_parse_error(st.result, Text("expected value ...", 33),
                                              line.text),
                !.parse_error_seen = TRUE,
                !.kill = TRUE]
        ELSE LET ev == Unwrap(line.parsed)
                 kept == CollectMessage(quiet, ev, o)
             IN  [kept EXCEPT
                    !.result = DetectFailure(
                                   CollectAgentMessage(CollectThreadId(kept.result, ev), ev),
                                   ev)]

\* One turn of the stderr task's loop for a line read (lines 278-300).
StderrStep(st, line) ==
    LET read == read_line_with_limit(line.n, MAX_LINE_LENGTH)
        text == IF read.truncated THEN Text("cut", MAX_LINE_LENGTH) ELSE line.text
        new_size == StrLen(st.stderr_output) + StrLen(text) + 1
        sep == IF st.stderr_output # <<>> THEN NL ELSE <<>>
    IN  IF new_size > MAX_STDERR_SIZE
        THEN IF ~st.truncated
             THEN [stderr_output |-> st.stderr_output \o sep
                                     \o Text("[... stderr truncated due to size limit ...]", 44),
                   truncated |-> TRUE]
             ELSE st
        ELSE IF ~st.truncated
             THEN [st EXCEPT !.stderr_output = @ \o sep \o text]
             ELSE st

\* an ExitStatus: success() and code()
ExitStatus(code) == [success |-> code = Some(0), code |-> code]

\* {:?} of status.code()
DebugCode(code) ==
    IF code = None THEN Text("None", 4)
    ELSE Text("Some(", 5) \o Number(Unwrap(code)) \o Text(")", 1)

\* the exit status judged with the captured stderr left out
FinishWithoutStderr(r, status, stderr) ==
    enforce_required_fields(
        IF ~status.success
        THEN [r EXCEPT
                !.success = FALSE,
                !.error = IF IsSome(r.error) THEN r.error
                          ELSE Some(Text("codex command failed with exit code: ", 37)
                                    \o DebugCode(status.code))]
        ELSE r,
        "Full")

\* lines 445-460: the exit status and the captured stderr
JudgeExit(r, status, stderr) ==
    IF ~status.success
    THEN LET error_msg ==
                 IF IsSome(r.error) THEN Unwrap(r.error)
                 ELSE Text("codex command failed with exit code: ", 37)
                      \o DebugCode(status.code)
         IN  [r EXCEPT
                !.success = FALSE,
                !.error = IF stderr # <<>>
                          THEN Some(error_msg \o Text("\nStderr: ", 9) \o stderr)
                          ELSE Some(error_msg)]
    ELSE IF stderr # <<>> THEN [r EXCEPT !.warnings = Some(stderr)]
    ELSE r

\* the exit status judged on a result taken for successful so far
FinishJudgingAnew(r, status, stderr) ==
    enforce_required_fields(JudgeExit([r EXCEPT !.success = TRUE], status, stderr), "Full")

\* lines 445-462: the exit status, the captured stderr, the required fields
Finish(r, status, stderr) == enforce_required_fields(JudgeExit(r, status, stderr), "Full")

\* SandboxPolicy::as_str
SandboxStr(sandbox) ==
    CASE sandbox = "ReadOnly" -> Text("read-only", 9)
      [] sandbox = "WorkspaceWrite" -> Text("workspace-write", 15)
      [] sandbox = "DangerFullAccess" -> Text("danger-full-access", 18)

\* lines 179-221: the Command run_internal builds, after the program's name (on
\* Windows the program is cmd.exe /D /S /C codex)
Command(o) ==
    LET use_stdin == o.force_stdin \/ needs_stdin_mode(o.prompt)
    IN  [args |->
            <<Text("exec", 4), Text("--sandbox", 9), SandboxStr(o.sandbox), Text("--cd", 4),
              o.working_dir, Text("--json", 6)>>
            \o Concat([i \in DOMAIN o.image_paths |-> <<Text("--image", 7), o.image_paths[i]>>])
            \o (IF IsSome(o.model) THEN <<Text("--model", 7), Unwrap(o.model)>> ELSE <<>>)
            \o (IF IsSome(o.profile) THEN <<Text("--profile", 9), Unwrap(o.profile)>> ELSE <<>>)
            \o (IF o.yolo THEN <<Text("--yolo", 6)>> ELSE <<>>)
            \o (IF o.skip_git_repo_check THEN <<Text("--skip-git-repo-check", 21)>> ELSE <<>>)
            \o (IF o.return_all_messages
                THEN <<Text("--return-all-messages", 21)>>
                     \o (IF IsSome(o.return_all_messages_limit)
                         THEN <<Text("--return-all-messages-limit", 27),
                                Number(Unwrap(o.return_all_messages_limit))>>
                         ELSE <<>>)
                ELSE <<>>)
            \o (IF IsSome(o.session_id) THEN <<Text("resume", 6), Unwrap(o.session_id)>>
                ELSE <<>>)
            \o (IF use_stdin THEN <<Text("--", 2), Text("-", 1)>>
                ELSE <<Text("--", 2), o.prompt>>),
         stdin |-> IF use_stdin THEN "piped" ELSE "null",
         kill_on_drop |-> TRUE]

\* what run returns: Ok(CodexResult) or Err
RunOk(r) == Some([ok |-> TRUE, result |-> r, err |-> <<>>])

RunErr(e) == Some([ok |-> FALSE, result |-> NewResult, err |-> e])

\* dropping the Child kills the process if it still runs (kill_on_drop), and no
\* other process
Dropped(c) == IF c = "running" THEN "killed" ELSE c

\* the most stdout lines the loop reads in one run
MaxLines == 2

\* the most stderr lines the stderr task reads in one run
MaxErrLines == 1

\* the lines a child may write to stdout: events, a JSON value that is no object, a
\* line that is no JSON, an empty line, a line longer than MAX_LINE_LENGTH
StdoutLines ==
    LET NoEvent == Event(FALSE, None, None, None, None, FALSE, None, None, 1)
        \* {"type":"thread.started","thread_id":"T1"}
        ThreadStarted ==
            Event(TRUE, Some(<<"t", "h", "r", "e", "a", "d", ".", "s", "t", "a", "r", "t", "e", "d">>),
                  Some(Text("T1", 2)), None, None, FALSE, None, None, 42)
        \* {"type":"item.completed","item":{"type":"agent_message","text":"hi"}}
        AgentMessage ==
            Event(TRUE, Some(<<"i", "t", "e", "m", ".", "c", "o", "m", "p", "l", "e", "t", "e", "d">>),
                  None, Some("agent_message"), Some(Text("hi", 2)), FALSE, None, None, 69)
        \* {"type":"error"}
        ErrorBare ==
            Event(TRUE, Some(<<"e", "r", "r", "o", "r">>), None, None, None, FALSE, None, None, 16)
        \* {"type":"error","message":"boom"}
        ErrorWithMessage ==
            Event(TRUE, Some(<<"e", "r", "r", "o", "r">>), None, None, None, FALSE, None,
                  Some(Text("boom", 4)), 33)
        \* {"type":"turn.failed","error":{"message":"bad"}}
        TurnFailed ==
            Event(TRUE, Some(<<"t", "u", "r", "n", ".", "f", "a", "i", "l", "e", "d">>), None, None,
                  None, TRUE, Some(Text("bad", 3)), None, 48)
    IN  { JsonLine("thread.started", ThreadStarted, 42),
          JsonLine("agent_message", AgentMessage, 69),
          JsonLine("error", ErrorBare, 16),
          JsonLine("error with message", ErrorWithMessage, 33),
          JsonLine("turn.failed", TurnFailed, 48),
          JsonLine("7", NoEvent, 1),
          Line(5, Text("oops", 4), None),
          Line(1, <<>>, None),
          Line(MAX_LINE_LENGTH + 2, Text("long", MAX_LINE_LENGTH + 1), None) }

StderrLines ==
    { Line(5, Text("warn", 4), None),
      Line(MAX_LINE_LENGTH + 2, Text("long", MAX_LINE_LENGTH + 1), None) }

BaseOptions ==
    [prompt |-> Text("hi", 2), working_dir |-> Text("/work", 5), sandbox |-> "ReadOnly",
     session_id |-> None, skip_git_repo_check |-> FALSE, return_all_messages |-> FALSE,
     return_all_messages_limit |-> None, image_paths |-> <<>>, model |-> None,
     yolo |-> FALSE, profile |-> None, timeout_secs |-> None, force_stdin |-> FALSE]

\* the options of the runs whose output is followed
RunOptions ==
    { [BaseOptions EXCEPT !.return_all_messages = all[1],
                          !.return_all_messages_limit = all[2],
                          !.timeout_secs = t] :
        all \in {<<FALSE, None>>, <<TRUE, None>>, <<TRUE, Some(1)>>},
        t \in {None, Some(0), Some(30), Some(4000)} }

Prompts ==
    LET Letters(n) == Text("aa...", n)  \* a run of n letters
    IN  {<<>>, Text("hi", 2), Text("-", 1), Letters(MAX_CLI_PROMPT_LEN),
         Letters(MAX_CLI_PROMPT_LEN + 1), Text("b", 1) \o Letters(MAX_CLI_PROMPT_LEN - 1),
         Letters(MAX_CLI_PROMPT_LEN) \o Text("$", 1)}
        \cup {Text("b", 1) \o Text(c, 1) \o Text("c", 1) : c \in SPECIAL_CHARS}

\* the options of the runs whose command is followed
SpawnOptions ==
    { [BaseOptions EXCEPT !.prompt = p, !.force_stdin = f] :
        p \in Prompts, f \in BOOLEAN }

CodexInit(run) ==
    /\ opts = IF IsSome(run) THEN Unwrap(run) ELSE BaseOptions
    /\ xpc = IF IsSome(run) THEN "init" ELSE "idle"
    /\ cmd = None
    /\ stdin_data = None
    /\ child = "none"
    /\ descendants = "none"
    /\ exit_code = None
    /\ result = NewResult
    /\ all_messages_size = 0
    /\ parse_error_seen = FALSE
    /\ stdout_lines = 0
    /\ stdout_seen = <<>>
    /\ stderr_output = <<>>
    /\ stderr_truncated = FALSE
    /\ stderr_lines = 0
    /\ stderr_done = FALSE
    /\ returned = None
    /\ timed_out = FALSE

\* lines 167-223: build the command and spawn the child
Spawn ==
    /\ xpc = "init"
    /\ cmd' = Some(Command(opts))
    /\ \/ /\ child' = "running"
          /\ xpc' = "spawned"
          /\ UNCHANGED returned
       \/ /\ returned' = RunErr(Text("Failed to spawn codex command", 29))
          /\ xpc' = "returned"
          /\ UNCHANGED child
    /\ UNCHANGED <<opts, stdin_data, descendants, exit_code, result, all_messages_size,
                   parse_error_seen, stdout_lines, stdout_seen, stderr_output, stderr_truncated,
                   stderr_lines, stderr_done, timed_out>>
    /\ UNCHANGED <<codecVars, handlerVars, geminiVars, grokVars, pipeVars>>

\* lines 225-256: write the prompt to the child's stdin if it is piped; the write
\* succeeds, or fails with BrokenPipe or NotConnected (tolerated), or fails otherwise
WritePrompt ==
    /\ xpc = "spawned"
    /\ IF Unwrap(cmd).stdin = "piped"
       THEN \/ /\ stdin_data' = Some([written |-> opts.prompt, error |-> "none"])
               /\ xpc' = "draining"
               /\ UNCHANGED <<child, returned>>
            \/ /\ stdin_data' = Some([written |-> <<>>, error |-> "BrokenPipe"])
               /\ xpc' = "draining"
               /\ UNCHANGED <<child, returned>>
            \/ /\ stdin_data' = Some([written |-> <<>>, error |-> "Other"])
               /\ returned' = RunErr(Text("Failed to write prompt to codex stdin", 37))
               /\ child' = Dropped(child)
               /\ xpc' = "returned"
       ELSE /\ xpc' = "draining"
            /\ UNCHANGED <<stdin_data, child, returned>>
    /\ UNCHANGED <<opts, cmd, descendants, exit_code, result, all_messages_size,
                   parse_error_seen, stdout_lines, stdout_seen, stderr_output, stderr_truncated,
                   stderr_lines, stderr_done, timed_out>>
    /\ UNCHANGED <<codecVars, handlerVars, geminiVars, grokVars, pipeVars>>

\* lines 316-423: the stdout loop reads one line, one of lines, if fewer than max
\* were read; with keep, the line is added to the record of the stream
ReadStdoutLine(lines, max, keep) ==
    /\ xpc = "draining"
    /\ stdout_lines < max
    /\ \E line \in lines :
          LET st == StdoutStep([result |-> result, all_messages_size |-> all_messages_size,
                                parse_error_seen |-> parse_error_seen, kill |-> FALSE],
                               line, opts)
          IN  /\ result' = st.result
              /\ all_messages_size' = st.all_messages_size
              /\ parse_error_seen' = st.parse_error_seen
              /\ child' = IF st.kill /\ child = "running" THEN "killed" ELSE child
              /\ stdout_seen' = IF keep THEN Append(stdout_seen, line) ELSE stdout_seen
    /\ stdout_lines' = stdout_lines + 1
    /\ UNCHANGED <<opts, xpc, cmd, stdin_data, descendants, exit_code, stderr_output,
                   stderr_truncated, stderr_lines, stderr_done, returned, timed_out>>
    /\ UNCHANGED <<codecVars, handlerVars, geminiVars, grokVars, pipeVars>>

StdoutLine == ReadStdoutLine(StdoutLines, MaxLines, FALSE)

\* lines 320-322: the stdout loop reads end of file
StdoutEof ==
    /\ xpc = "draining"
    /\ xpc' = "waiting"
    /\ UNCHANGED <<opts, cmd, stdin_data, child, descendants, exit_code, result,
                   all_messages_size, parse_error_seen, stdout_lines, stdout_seen, stderr_output,
                   stderr_truncated, stderr_lines, stderr_done, returned, timed_out>>
    /\ UNCHANGED <<codecVars, handlerVars, geminiVars, grokVars, pipeVars>>

\* lines 424-428: reading stdout fails
StdoutError ==
    /\ xpc = "draining"
    /\ result' = record_parse_error(result, Text("io error", 8), <<>>)
    /\ xpc' = "waiting"
    /\ UNCHANGED <<opts, cmd, stdin_data, child, descendants, exit_code,
                   all_messages_size, parse_error_seen, stdout_lines, stdout_seen, stderr_output,
                   stderr_truncated, stderr_lines, stderr_done, returned, timed_out>>
    /\ UNCHANGED <<codecVars, handlerVars, geminiVars, grokVars, pipeVars>>

\* lines 277-300: the stderr task reads one line, one of lines, if fewer than max
\* were read
ReadStderrLine(lines, max) ==
    /\ xpc \in {"draining", "waiting"}
    /\ ~stderr_done
    /\ stderr_lines < max
    /\ \E line \in lines :
          LET st == StderrStep([stderr_output |-> stderr_output,
                                truncated |-> stderr_truncated], line)
          IN  /\ stderr_output' = st.stderr_output
              /\ stderr_truncated' = st.truncated
    /\ stderr_lines' = stderr_lines + 1
    /\ UNCHANGED <<opts, xpc, cmd, stdin_data, child, descendants, exit_code, result,
                   all_messages_size, parse_error_seen, stdout_lines, stdout_seen,
                   stderr_done, returned, timed_out>>
    /\ UNCHANGED <<codecVars, handlerVars, geminiVars, grokVars, pipeVars>>

StderrLine == ReadStderrLine(StderrLines, MaxErrLines)

\* lines 281-283, 302-305: the stderr task reads end of file, or fails to read
StderrEof ==
    /\ xpc \in {"draining", "waiting"}
    /\ ~stderr_done
    /\ stderr_done' = TRUE
    /\ UNCHANGED <<opts, xpc, cmd, stdin_data, child, descendants, exit_code, result,
                   all_messages_size, parse_error_seen, stdout_lines, stdout_seen, stderr_output,
                   stderr_truncated, stderr_lines, returned, timed_out>>
    /\ UNCHANGED <<codecVars, handlerVars, geminiVars, grokVars, pipeVars>>

\* the child exits by itself
ChildExits ==
    /\ xpc \in {"spawned", "draining", "waiting"}
    /\ child = "running"
    /\ child' = "exited"
    /\ \E code \in {0, 1} : exit_code' = Some(code)
    /\ UNCHANGED <<opts, xpc, cmd, stdin_data, descendants, result, all_messages_size,
                   parse_error_seen, stdout_lines, stdout_seen, stderr_output, stderr_truncated,
                   stderr_lines, stderr_done, returned, timed_out>>
    /\ UNCHANGED <<codecVars, handlerVars, geminiVars, grokVars, pipeVars>>

\* the child starts a process of its own: on Windows cmd.exe starts codex, and
\* codex starts the commands the model asks for
ChildForks ==
    /\ child = "running"
    /\ descendants = "none"
    /\ descendants' = "running"
    /\ UNCHANGED <<opts, xpc, cmd, stdin_data, child, exit_code, result, all_messages_size,
                   parse_error_seen, stdout_lines, stdout_seen, stderr_output, stderr_truncated,
                   stderr_lines, stderr_done, returned, timed_out>>
    /\ UNCHANGED <<codecVars, handlerVars, geminiVars, grokVars, pipeVars>>

\* a process the child started exits by itself
DescendantExits ==
    /\ descendants = "running"
    /\ descendants' = "exited"
    /\ UNCHANGED <<opts, xpc, cmd, stdin_data, child, exit_code, result, all_messages_size,
                   parse_error_seen, stdout_lines, stdout_seen, stderr_output, stderr_truncated,
                   stderr_lines, stderr_done, returned, timed_out>>
    /\ UNCHANGED <<codecVars, handlerVars, geminiVars, grokVars, pipeVars>>

\* lines 432-462: wait for the child, join the stderr task, return the result
WaitAndReturn ==
    /\ xpc = "waiting"
    /\ child \in {"exited", "killed"}
    /\ stderr_done
    /\ returned' = RunOk(Finish(result, ExitStatus(exit_code), stderr_output))
    /\ xpc' = "returned"
    /\ UNCHANGED <<opts, cmd, stdin_data, child, descendants, exit_code, result,
                   all_messages_size, parse_error_seen, stdout_lines, stdout_seen, stderr_output,
                   stderr_truncated, stderr_lines, stderr_done, timed_out>>
    /\ UNCHANGED <<codecVars, handlerVars, geminiVars, grokVars, pipeVars>>

\* run, lines 145-162: the timeout elapses first; run_internal's future is dropped,
\* and with it the Child
TimerFires ==
    /\ xpc \in {"spawned", "draining", "waiting"}
    /\ timed_out' = TRUE
    /\ returned' = RunOk(enforce_required_fields(
                             TimeoutResult(normalize_timeout_secs(opts.timeout_secs)),
                             "Skip"))
    /\ child' = Dropped(child)
    /\ xpc' = "returned"
    /\ UNCHANGED <<opts, cmd, stdin_data, descendants, exit_code, result, all_messages_size,
                   parse_error_seen, stdout_lines, stdout_seen, stderr_output, stderr_truncated,
                   stderr_lines, stderr_done>>
    /\ UNCHANGED <<codecVars, handlerVars, geminiVars, grokVars, pipeVars>>

CodexNext ==
    \/ Spawn
    \/ WritePrompt
    \/ StdoutLine
    \/ StdoutEof
    \/ StdoutError
    \/ StderrLine
    \/ StderrEof
    \/ ChildExits
    \/ ChildForks
    \/ DescendantExits
    \/ WaitAndReturn
    \/ TimerFires

CodexSpawnNext ==
    \/ Spawn
    \/ WritePrompt
    \/ TimerFires

\* the most stdout lines the loop reads in a run that only gathers assistant text
MaxTextLines == 13

\* assistant messages that come close to MAX_AGENT_MESSAGES_SIZE in a few lines:
\* {"type":"item.completed","item":{"type":"agent_message","text":"..."}} with a
\* text of 1048000 bytes and with one of 5751, so that ten of the first and one of
\* the second fill agent_messages to the byte
TextLines ==
    LET AgentText(name, n) ==
            JsonLine(name,
                     Event(TRUE,
                           Some(<<"i", "t", "e", "m", ".", "c", "o", "m", "p", "l", "e", "t", "e",
                                  "d">>),
                           None, Some("agent_message"), Some(Text(name, n)), FALSE, None, None,
                           n + 67),
                     n + 67)
    IN  {AgentText("long text", 1048000), AgentText("short text", 5751)}

StdoutText == ReadStdoutLine(TextLines, MaxTextLines, FALSE)

CodexTextNext ==
    \/ Spawn
    \/ WritePrompt
    \/ StdoutText
    \/ StdoutEof
    \/ StderrEof
    \/ ChildExits
    \/ WaitAndReturn

\* the most stdout lines the loop reads in a run whose stream is recorded
MaxOrderLines == 3

\* events that give a session id (T1, T2, an empty one), assistant messages (hi,
\* yo, an empty one), a reasoning item, a turn.completed, and a turn.failed
OrderLines ==
    LET started == <<"t", "h", "r", "e", "a", "d", ".", "s", "t", "a", "r", "t", "e", "d">>
        completed == <<"i", "t", "e", "m", ".", "c", "o", "m", "p", "l", "e", "t", "e", "d">>
        Thread(id, size) ==
            JsonLine("thread.started",
                     Event(TRUE, Some(started), Some(id), None, None, FALSE, None, None, size),
                     size)
        Completed(type, text, size) ==
            JsonLine("item.completed",
                     Event(TRUE, Some(completed), None, Some(type), Some(text), FALSE, None, None,
                           size),
                     size)
    IN  { Thread(Text("T1", 2), 42), Thread(Text("T2", 2), 42), Thread(<<>>, 40),
          Completed("agent_message", Text("hi", 2), 69),
          Completed("agent_message", Text("yo", 2), 69),
          Completed("agent_message", <<>>, 67), Completed("reasoning", Text("hm", 2), 65),
          JsonLine("turn.completed",
                   Event(TRUE,
                         Some(<<"t", "u", "r", "n", ".", "c", "o", "m", "p", "l", "e", "t", "e",
                                "d">>),
                         None, None, None, FALSE, None, None, 25),
                   25),
          JsonLine("turn.failed",
                   Event(TRUE, Some(<<"t", "u", "r", "n", ".", "f", "a", "i", "l", "e", "d">>),
                         None, None, None, TRUE, Some(Text("bad", 3)), None, 48),
                   48) }

\* the options of the runs whose stream is recorded
OrderOptions ==
    { [BaseOptions EXCEPT !.return_all_messages = TRUE, !.return_all_messages_limit = limit] :
        limit \in {None, Some(2)} }

StdoutOrder == ReadStdoutLine(OrderLines, MaxOrderLines, TRUE)

CodexOrderNext ==
    \/ Spawn
    \/ WritePrompt
    \/ StdoutOrder
    \/ StdoutEof
    \/ StderrLine
    \/ StderrEof
    \/ ChildExits
    \/ WaitAndReturn

-----------------------------------------------------------------------------
(* The codex tool handler and its policy arbiter (src/src/server.rs,        *)
(* src/src/tools/codex.rs).  The value of an environment variable is a      *)
(* byte string.                                                            *)

to_ascii_lowercase(s) ==
    LET UPPERCASE ==
            <<"A", "B", "C", "D", "E", "F", "G", "H", "I", "J", "K", "L", "M", "N", "O", "P",
              "Q", "R", "S", "T", "U", "V", "W", "X", "Y", "Z">>
        LOWERCASE ==
            <<"a", "b", "c", "d", "e", "f", "g", "h", "i", "j", "k", "l", "m", "n", "o", "p",
              "q", "r", "s", "t", "u", "v", "w", "x", "y", "z">>
    IN  [i \in DOMAIN s |->
            IF \E j \in DOMAIN UPPERCASE : UPPERCASE[j] = s[i]
            THEN LOWERCASE[CHOOSE j \in DOMAIN UPPERCASE : UPPERCASE[j] = s[i]]
            ELSE s[i]]

\* the spellings resolve_env_bool takes for true and for false
TrueWords ==
    {<<"1">>, <<"t", "r", "u", "e">>, <<"y", "e", "s">>, <<"y">>, <<"o", "n">>, <<"t">>,
     <<"e", "n", "a", "b", "l", "e">>, <<"e", "n", "a", "b", "l", "e", "d">>}

FalseWords ==
    {<<"0">>, <<"f", "a", "l", "s", "e">>, <<"n", "o">>, <<"n">>, <<"o", "f", "f">>, <<"f">>,
     <<"d", "i", "s", "a", "b", "l", "e">>, <<"d", "i", "s", "a", "b", "l", "e", "d">>}

\* resolve_env_bool: the value found, and the warnings it pushes
resolve_env_bool(key, env_val) ==
    IF env_val = None THEN [value |-> None, warnings |-> <<>>]
    ELSE LET normalized == to_ascii_lowercase(Trim(Unwrap(env_val)))
         IN  IF normalized \in TrueWords THEN [value |-> Some(TRUE), warnings |-> <<>>]
             ELSE IF normalized \in FalseWords THEN [value |-> Some(FALSE), warnings |-> <<>>]
             ELSE IF normalized = <<>> THEN [value |-> None, warnings |-> <<>>]
             ELSE [value |-> None,
                   warnings |->
                       <<Text("Environment variable ", 21) \o key
                         \o Text(" has unrecognized boolean value '", 33)
                         \o Text("value", Len(Unwrap(env_val)))
                         \o Text("'; defaulting to disabled.", 26)>>]

\* get_security_config: the SecurityConfig, and the warnings pushed
get_security_config(env) ==
    LET dangerous == resolve_env_bool(Text("CODEX_ALLOW_DANGEROUS", 21),
                                      env.CODEX_ALLOW_DANGEROUS)
        yolo == resolve_env_bool(Text("CODEX_ALLOW_YOLO", 16), env.CODEX_ALLOW_YOLO)
        skip == resolve_env_bool(Text("CODEX_ALLOW_SKIP_GIT_CHECK", 26),
                                 env.CODEX_ALLOW_SKIP_GIT_CHECK)
    IN  [allow_danger_full_access |-> dangerous.value = Some(TRUE),
         allow_yolo |-> yolo.value = Some(TRUE),
         allow_skip_git_check |-> skip.value = Some(TRUE),
         warnings |-> dangerous.warnings \o yolo.warnings \o skip.warnings]

DangerWarning == Text("Security warning: danger-full-access sandbox mode was downgraded ...", 120)

YoloWarning == Text("Security warning: yolo mode was disabled. ...", 78)

SkipGitWarning == Text("Security warning: skip_git_repo_check was disabled. ...", 98)

\* apply_security_restrictions checking the sandbox only
ApplySandboxRestrictionOnly(a, security) ==
    IF ~security.allow_danger_full_access /\ a.sandbox = "DangerFullAccess"
    THEN [args |-> [a EXCEPT !.sandbox = "ReadOnly"], warnings |-> <<DangerWarning>>]
    ELSE [args |-> a, warnings |-> <<>>]

\* apply_security_restrictions: the arguments rewritten, and the warnings returned
apply_security_restrictions(a, security) ==
    LET downgrade == ~security.allow_danger_full_access /\ a.sandbox = "DangerFullAccess"
        no_yolo == ~security.allow_yolo /\ a.yolo
        no_skip == ~security.allow_skip_git_check /\ a.skip_git_repo_check
    IN  [args |-> [a EXCEPT
                      !.sandbox = IF downgrade THEN "ReadOnly" ELSE @,
                      !.yolo = IF no_yolo THEN FALSE ELSE @,
                      !.skip_git_repo_check = IF no_skip THEN FALSE ELSE @],
         warnings |-> (IF downgrade THEN <<DangerWarning>> ELSE <<>>)
                      \o (IF no_yolo THEN <<YoloWarning>> ELSE <<>>)
                      \o (IF no_skip THEN <<SkipGitWarning>> ELSE <<>>)]

\* std::env::var's answers
EnvOk(val) == [kind |-> "Ok", val |-> val]

EnvErr(kind) == [kind |-> kind, val |-> <<>>]

\* resolve_timeout_from_env handing on whatever number the variable holds
ResolveTimeoutFromEnvUnchecked(env_result) ==
    IF env_result.kind = "Ok" /\ ParseUsize(Trim(env_result.val)) # None
    THEN [value |-> Unwrap(ParseUsize(Trim(env_result.val))), warning |-> None]
    ELSE [value |-> DEFAULT_TIMEOUT_SECS, warning |-> None]

resolve_timeout_from_env(env_result) ==
    IF env_result.kind = "Ok"
    THEN LET trimmed == Trim(env_result.val)
             parsed == ParseUsize(trimmed)
         IN  IF trimmed = <<>> THEN [value |-> DEFAULT_TIMEOUT_SECS, warning |-> None]
             ELSE IF parsed = None
             THEN [value |-> DEFAULT_TIMEOUT_SECS,
                   warning |-> Some(Text("CODEX_DEFAULT_TIMEOUT='", 23)
                                    \o Text("value", Len(trimmed))
                                    \o Text("' is not a valid number; using default of ", 42)
                                    \o Number(DEFAULT_TIMEOUT_SECS) \o Text(" seconds", 8))]
             ELSE IF Unwrap(parsed) = 0
             THEN [value |-> DEFAULT_TIMEOUT_SECS,
                   warning |-> Some(Text("CODEX_DEFAULT_TIMEOUT=0 is invalid; using default of ",
                                         53)
                                    \o Number(DEFAULT_TIMEOUT_SECS) \o Text(" seconds", 8))]
             ELSE IF Unwrap(parsed) > MAX_TIMEOUT_SECS
             THEN [value |-> MAX_TIMEOUT_SECS,
                   warning |-> Some(Text("CODEX_DEFAULT_TIMEOUT=", 22) \o Number(Unwrap(parsed))
                                    \o Text(" exceeds maximum of ", 20)
                                    \o Number(MAX_TIMEOUT_SECS)
                                    \o Text(" seconds; capping to maximum", 28))]
             ELSE [value |-> Unwrap(parsed), warning |-> None]
    ELSE IF env_result.kind = "NotUnicode"
    THEN [value |-> DEFAULT_TIMEOUT_SECS,
          warning |-> Some(Text("CODEX_DEFAULT_TIMEOUT contains invalid UTF-8; using default of ",
                                63)
                           \o Number(DEFAULT_TIMEOUT_SECS) \o Text(" seconds", 8))]
    ELSE [value |-> DEFAULT_TIMEOUT_SECS, warning |-> None]

\* server.rs lines 655-682: the timeout handed on, and the warnings pushed
ResolveTimeout(timeout_secs, env_result) ==
    LET default_result == resolve_timeout_from_env(env_result)
        default_warning == IF IsSome(default_result.warning)
                           THEN <<Unwrap(default_result.warning)>> ELSE <<>>
    IN  IF timeout_secs = None
        THEN [timeout_secs |-> Some(default_result.value), warnings |-> default_warning]
        ELSE IF timeout_secs = Some(0)
        THEN [timeout_secs |-> Some(default_result.value),
              warnings |-> <<Text("Timeout of 0 seconds is invalid; using default of ", 50)
                             \o Number(default_result.value) \o Text(" seconds", 8)>>
                           \o default_warning]
        ELSE IF Unwrap(timeout_secs) > MAX_TIMEOUT_SECS
        THEN [timeout_secs |-> Some(MAX_TIMEOUT_SECS),
              warnings |-> <<Text("Timeout of ", 11) \o Number(Unwrap(timeout_secs))
                             \o Text(" seconds exceeds maximum of ", 28)
                             \o Number(MAX_TIMEOUT_SECS)
                             \o Text(" seconds; capping to maximum", 28)>>]
        ELSE [timeout_secs |-> timeout_secs, warnings |-> <<>>]

\* server.rs lines 635-682, the policy arbiter of a call: the security
\* configuration is read, the restrictions are applied, the timeout is resolved
PolicyArbiter(a, env) ==
    LET security == get_security_config(env)
        restricted == apply_security_restrictions(a, security)
        timeout == ResolveTimeout(restricted.args.timeout_secs, env.CODEX_DEFAULT_TIMEOUT)
    IN  [args |-> [restricted.args EXCEPT !.timeout_secs = timeout.timeout_secs],
         env_warnings |-> security.warnings,
         restriction_warnings |-> restricted.warnings,
         warnings |-> security.warnings \o restricted.warnings \o timeout.warnings]

\* Vec<String>::join("\n")
RECURSIVE Join(_)
Join(ws) ==
    IF ws = <<>> THEN <<>>
    ELSE IF Len(ws) = 1 THEN ws[1]
    ELSE ws[1] \o NL \o Join(Tail(ws))

merge_warnings(security_warnings, result_warnings) ==
    LET all == security_warnings
               \o (IF IsSome(result_warnings) THEN <<Unwrap(result_warnings)>> ELSE <<>>)
    IN  IF all = <<>> THEN None ELSE Some(Join(all))

attach_warnings(error_msg, warnings) ==
    IF IsSome(warnings) /\ Unwrap(warnings) # <<>>
    THEN error_msg \o Text("\nWarnings: ", 11) \o Unwrap(warnings)
    ELSE error_msg

build_codex_output(r, return_all_messages, warnings) ==
    [success |-> r.success,
     session_id |-> r.session_id,
     agent_messages |-> r.agent_messages,
     agent_messages_truncated |-> IF r.agent_messages_truncated THEN Some(TRUE) ELSE None,
     all_messages |-> IF return_all_messages THEN Some(r.all_messages) ELSE None,
     all_messages_truncated |->
         IF return_all_messages /\ r.all_messages_truncated THEN Some(TRUE) ELSE None,
     error |-> r.error,
     warnings |-> warnings]

\* the handler's answer: a tool result or an McpError, with what the arbiter
\* decided on the way (the options handed to codex::run, the warnings)
Reply(kind, message, handed, restriction_warnings, security_warnings, output) ==
    Some([kind |-> kind, message |-> message, handed |-> handed,
          restriction_warnings |-> restriction_warnings,
          security_warnings |-> security_warnings, output |-> output])

\* the image paths taken as they are
NoBadImages(image) == {}

\* lines 684-733: the first image path that cannot be used, if any
BadImages(image) == {i \in DOMAIN image : image[i].kind # "file"}

\* lines 735-749: the Options handed to codex::run
Handed(a, c) ==
    [prompt |-> a.prompt, working_dir |-> c.cd_entry.canonical, sandbox |-> a.sandbox,
     session_id |-> a.session_id, skip_git_repo_check |-> a.skip_git_repo_check,
     return_all_messages |-> a.return_all_messages,
     return_all_messages_limit |-> a.return_all_messages_limit,
     image_paths |-> [i \in DOMAIN a.image |-> a.image[i].canonical],
     model |-> a.model, yolo |-> a.yolo, profile |-> a.profile,
     timeout_secs |-> a.timeout_secs, force_stdin |-> a.force_stdin]

\* what codex::run may return for the options: it cannot spawn; the timeout
\* elapses; the child exits with 0 after a session id and a message; the child
\* exits with 1 and a line on stderr
RunOutcomes(o) ==
    { RunErr(Text("Failed to spawn codex command", 29)),
      RunOk(TimeoutResult(normalize_timeout_secs(o.timeout_secs))),
      RunOk(Finish([NewResult EXCEPT !.session_id = Text("T1", 2),
                                     !.agent_messages = Text("hi", 2)],
                   ExitStatus(Some(0)), <<>>)),
      RunOk(Finish(NewResult, ExitStatus(Some(1)), Text("warn", 4))) }

\* UnifiedServer::codex, lines 624-769
codex ==
    /\ IsSome(call)
    /\ reply = None
    /\ LET c == Unwrap(call)
           security == get_security_config(c.env)
           restricted == apply_security_restrictions(c.args, security)
           timeout == ResolveTimeout(restricted.args.timeout_secs, c.env.CODEX_DEFAULT_TIMEOUT)
           a == [restricted.args EXCEPT !.timeout_secs = timeout.timeout_secs]
           security_warnings == security.warnings \o restricted.warnings \o timeout.warnings
           bad == BadImages(a.image)
       IN  IF ~c.codex_available
           THEN reply' = Reply("internal_error", Text("Codex CLI not found in PATH. ...", 72),
                               None, <<>>, <<>>, None)
           ELSE IF c.args.prompt = <<>>
           THEN reply' = Reply("invalid_params",
                               Text("PROMPT is required and must be a non-empty string", 49),
                               None, <<>>, security.warnings, None)
           ELSE IF c.args.cd = <<>>
           THEN reply' = Reply("invalid_params",
                               Text("cd is required and must be a non-empty string", 45),
                               None, <<>>, security.warnings, None)
           ELSE IF c.cd_entry.kind = "missing"
           THEN reply' = Reply("invalid_params",
                               Text("working directory does not exist or is not accessible: ",
                                    55) \o c.args.cd,
                               None, restricted.warnings, security_warnings, None)
           ELSE IF c.cd_entry.kind # "dir"
           THEN reply' = Reply("invalid_params",
                               Text("working directory is not a directory: ", 38) \o c.args.cd,
                               None, restricted.warnings, security_warnings, None)
           ELSE IF bad # {}
           THEN reply' = Reply("invalid_params",
                               (IF a.image[Min(bad)].kind = "missing"
                                THEN Text("image file does not exist or is not accessible: ", 48)
                                ELSE Text("image path is not a file: ", 26))
                               \o a.image[Min(bad)].path,
                               None, restricted.warnings, security_warnings, None)
           ELSE \E ran \in RunOutcomes(Handed(a, c)) :
                   LET ret == Unwrap(ran)
                   IN  IF ~ret.ok
                       THEN reply' = Reply("internal_error",
                                           attach_warnings(
                                               Text("Failed to execute codex: ", 25) \o ret.err,
                                               merge_warnings(security_warnings, None)),
                                           Some(Handed(a, c)), restricted.warnings,
                                           security_warnings, None)
                       ELSE reply' = Reply("ok", <<>>, Some(Handed(a, c)), restricted.warnings,
                                           security_warnings,
                                           Some(build_codex_output(
                                                    ret.result, c.args.return_all_messages,
                                                    merge_warnings(security_warnings,
                                                                   ret.result.warnings))))
    /\ UNCHANGED call
    /\ UNCHANGED <<codecVars, codexVars, geminiVars, grokVars, pipeVars>>

CodexArgs(sandbox, yolo, skip_git_repo_check, timeout_secs) ==
    [prompt |-> Text("hi", 2), cd |-> Text("work/.", 6), sandbox |-> sandbox,
     session_id |-> None, skip_git_repo_check |-> skip_git_repo_check,
     return_all_messages |-> FALSE, return_all_messages_limit |-> None, image |-> <<>>,
     model |-> None, yolo |-> yolo, profile |-> None, timeout_secs |-> timeout_secs,
     force_stdin |-> FALSE]

\* The calls the handler is given.  The first set passes validation, with every
\* request, every grant and every timeout; the second asks for everything with
\* nothing granted, with every fault of the other arguments and every value of
\* CODEX_DEFAULT_TIMEOUT.  An entry says what the file system holds at a path: its
\* kind and its canonical path.
CodexCalls ==
    LET EnvBools ==
            {None, Some(<<" ", "O", "n">>), Some(<<"0">>), Some(<<"m", "a", "y", "b", "e">>)}
        EnvTimeouts ==
            {EnvErr("NotPresent"), EnvErr("NotUnicode"), EnvOk(<<"1", "2", "0", " ">>),
             EnvOk(<<"0">>), EnvOk(<<"9", "9", "9", "9">>), EnvOk(<<"a", "b", "c">>),
             EnvOk(<<" ">>)}
        Env(dangerous, yolo, skip, timeout) ==
            [CODEX_ALLOW_DANGEROUS |-> dangerous, CODEX_ALLOW_YOLO |-> yolo,
             CODEX_ALLOW_SKIP_GIT_CHECK |-> skip, CODEX_DEFAULT_TIMEOUT |-> timeout]
        Entry(kind, canonical) == [kind |-> kind, canonical |-> canonical]
        ImageArg(kind) ==
            [path |-> Text("shot.png", 8), kind |-> kind,
             canonical |-> Text("/work/shot.png", 14)]
    IN  { [codex_available |-> TRUE,
           args |-> CodexArgs(sandbox, yolo, skip, t),
           env |-> Env(ed, ey, es, et),
           cd_entry |-> Entry("dir", Text("/work", 5))] :
            sandbox \in {"ReadOnly", "WorkspaceWrite", "DangerFullAccess"},
            yolo \in BOOLEAN, skip \in BOOLEAN, t \in {None, Some(0), Some(30), Some(4000)},
            ed \in EnvBools, ey \in EnvBools, es \in EnvBools,
            et \in {EnvErr("NotPresent"), EnvOk(<<"9", "9", "9", "9">>)} }
        \cup
        { [codex_available |-> available,
           args |-> [CodexArgs("DangerFullAccess", TRUE, TRUE, None) EXCEPT
                        !.prompt = prompt, !.cd = cd, !.image = image],
           env |-> Env(None, None, None, et),
           cd_entry |-> Entry(kind, Text("/work", 5))] :
            available \in BOOLEAN, prompt \in {<<>>, Text("hi", 2)},
            cd \in {<<>>, Text("work/.", 6)}, kind \in {"dir", "missing", "file"},
            image \in {<<>>, <<ImageArg("file")>>, <<ImageArg("file"), ImageArg("missing")>>,
                       <<ImageArg("dir")>>},
            et \in EnvTimeouts }

HandlerNext == codex
-----------------------------------------------------------------------------
(* The Gemini CLI orchestrator (src/src/tools/gemini.rs).                   *)

MIN_TIMEOUT_SECS == 1

MAX_MESSAGES_LIMIT == 10000

MAX_NON_JSON_LINES == 1000

MAX_STDERR_BYTES == 100000

PROMPT_DEPRECATION_WARNING == Text("The --prompt (-p) flag has been deprecated", 42)

\* get_default_timeout, of what std::env::var gives for GEMINI_DEFAULT_TIMEOUT
get_default_timeout(env_result) ==
    LET parsed == IF env_result.kind = "Ok" THEN ParseUsize(Trim(env_result.val)) ELSE None
    IN  IF IsSome(parsed) /\ Unwrap(parsed) \in MIN_TIMEOUT_SECS..MAX_TIMEOUT_SECS
        THEN Unwrap(parsed)
        ELSE DEFAULT_TIMEOUT_SECS

\* the GeminiResult run_with_child starts from
NewGeminiResult(return_all_messages) ==
    [success |-> TRUE, session_id |-> <<>>, agent_messages |-> <<>>, all_messages |-> <<>>,
     return_all_messages |-> return_all_messages, error |-> None]

\* A stdout line parsed by serde_json, as far as process_json_line looks into it:
\* the strings at session_id, type, role, content and message, if any (type and
\* role are "" when absent), what is at error (absent, object, other), and the
\* string at error.message, if any.
GeminiEvent(session_id, type, role, content, error, error_message, message) ==
    [session_id |-> session_id, type |-> type, role |-> role, content |-> content,
     error |-> error, error_message |-> error_message, message |-> message]

process_json_line(line_data, res, return_all_messages) ==
    LET stored == IF return_all_messages /\ Len(res.all_messages) < MAX_MESSAGES_LIMIT
                  THEN [res EXCEPT !.all_messages = Append(@, line_data)]
                  ELSE res
        named == IF IsSome(line_data.session_id) /\ Unwrap(line_data.session_id) # <<>>
                 THEN [stored EXCEPT !.session_id = Unwrap(line_data.session_id)]
                 ELSE stored
        is_message == /\ line_data.type = <<"m", "e", "s", "s", "a", "g", "e">>
                      /\ line_data.role = "assistant"
                      /\ IsSome(line_data.content)
        said == IF is_message
                THEN [named EXCEPT
                        !.agent_messages =
                            @ \o (IF @ # <<>> THEN NL ELSE <<>>) \o Unwrap(line_data.content)]
                ELSE named
        item_type_lower == to_ascii_lowercase(line_data.type)
        has_explicit_error == \/ Contains(item_type_lower, <<"f", "a", "i", "l">>)
                              \/ Contains(item_type_lower, <<"e", "r", "r", "o", "r">>)
        has_error_obj == line_data.error # "absent"
        failed == [said EXCEPT !.success = FALSE]
    IN  IF is_message /\ line_data.content = Some(PROMPT_DEPRECATION_WARNING) THEN named
        ELSE IF has_explicit_error \/ has_error_obj
        THEN IF line_data.error = "object"
             THEN IF IsSome(line_data.error_message)
                  THEN [failed EXCEPT
                          !.error = Some(Text("gemini error: ", 14)
                                         \o Unwrap(line_data.error_message))]
                  ELSE failed
             ELSE IF IsSome(line_data.message)
                  THEN [failed EXCEPT
                          !.error = Some(Text("gemini error: ", 14) \o Unwrap(line_data.message))]
                  ELSE failed
        ELSE said

\* lines 317-331: the stderr branch of the loop for a line read
GeminiStderrStep(st, line) ==
    IF StrLen(st.stderr_output) < MAX_STDERR_BYTES /\ ~st.stderr_truncated
    THEN LET started == st.stderr_output \o (IF st.stderr_output # <<>> THEN NL ELSE <<>>)
             remaining == MAX_STDERR_BYTES - StrLen(started)
         IN  IF StrLen(line) <= remaining
             THEN [st EXCEPT !.stderr_output = started \o line]
             ELSE [stderr_output |-> started \o Text("cut", remaining)
                                     \o Text("\n... (stderr truncated)", 23),
                   stderr_truncated |-> TRUE]
    ELSE st

\* enforce_required_fields leaving an error recorded before as it is
GeminiEnforceKeepingError(res) ==
    IF res.session_id = <<>> /\ res.error = None
    THEN [res EXCEPT
            !.success = FALSE,
            !.error = Some(Text("Failed to get SESSION_ID from the gemini session.", 49))]
    ELSE res

\* enforce_required_fields of gemini.rs, lines 384-412
gemini_enforce_required_fields(res) ==
    LET errors ==
            (IF res.session_id = <<>>
             THEN <<Text("Failed to get 'SESSION_ID' from the gemini session.", 51)>>
             ELSE <<>>)
            \o (IF res.agent_messages = <<>> /\ ~res.return_all_messages
                THEN <<Text("Failed to get 'agent_messages' from the gemini session. ...", 135)>>
                ELSE IF /\ res.agent_messages = <<>>
                        /\ res.return_all_messages
                        /\ res.all_messages = <<>>
                THEN <<Text("Failed to get any messages from the gemini session.", 51)>>
                ELSE <<>>)
        existing_error == IF IsSome(res.error) /\ Unwrap(res.error) # <<>>
                          THEN res.error ELSE None
    IN  IF errors # <<>>
        THEN [res EXCEPT
                !.success = FALSE,
                !.error = IF IsSome(existing_error)
                          THEN Some(Unwrap(existing_error) \o NL \o Join(errors))
                          ELSE Some(Join(errors))]
        ELSE res

\* lines 351-378: the exit status, the captured stderr, the lines that were no
\* JSON
GeminiJudgeExit(res, status, captured, non_json, valid_json) ==
    IF ~status.success
    THEN [res EXCEPT
            !.success = FALSE,
            !.error =
                Some((IF IsSome(res.error) THEN Unwrap(res.error)
                      ELSE Text("gemini command failed with exit code: ", 38)
                           \o DebugCode(status.code))
                     \o (IF captured # <<>>
                         THEN Text("\nStderr: ", 9) \o captured ELSE <<>>)
                     \o (IF non_json # <<>>
                         THEN Text("\nNon-JSON output: ", 18) \o Join(non_json)
                         ELSE <<>>))]
    ELSE IF non_json # <<>> /\ ~valid_json
    THEN [res EXCEPT
            !.success = FALSE,
            !.error = Some(Text("No valid JSON output received from gemini CLI.\nOutput: ", 55)
                           \o Join(non_json))]
    ELSE res

\* lines 351-381: the exit status, then the required fields
GeminiFinish(res, status, captured, non_json, valid_json) ==
    gemini_enforce_required_fields(GeminiJudgeExit(res, status, captured, non_json, valid_json))

\* what run returns: Ok(GeminiResult) or Err
GeminiOk(r) == Some([ok |-> TRUE, result |-> r, err |-> <<>>])

GeminiErr(e) == Some([ok |-> FALSE, result |-> NewGeminiResult(FALSE), err |-> e])

\* run is called with the Options of run, if any; it is not called otherwise
GeminiInit(run) ==
    /\ gemini_opts = run
    /\ gemini_pc = IF IsSome(run) THEN "init" ELSE "idle"
    /\ gemini_child = "none"
    /\ gemini_exit = None
    /\ gemini_result = NewGeminiResult(FALSE)
    /\ gemini_stderr = [stderr_output |-> <<>>, stderr_truncated |-> FALSE]
    /\ non_json_lines = <<>>
    /\ valid_json_seen = FALSE
    /\ stdout_closed = FALSE
    /\ stderr_closed = FALSE
    /\ gemini_reads = [stdout |-> 0, stderr |-> 0]
    /\ gemini_returned = None

\* lines 185-210: run checks the options, builds the command and spawns the child
GeminiSpawn ==
    /\ gemini_pc = "init"
    /\ LET o == Unwrap(gemini_opts)
       IN  IF Trim(o.prompt) = <<>>
           THEN /\ gemini_returned' =
                       GeminiErr(Text("Prompt must be a non-empty, non-whitespace string", 49))
                /\ gemini_pc' = "returned"
                /\ UNCHANGED gemini_child
           ELSE IF /\ IsSome(o.timeout_secs)
                   /\ Unwrap(o.timeout_secs) \notin MIN_TIMEOUT_SECS..MAX_TIMEOUT_SECS
           THEN /\ gemini_returned' =
                       GeminiErr(Text("timeout_secs must be between ", 29)
                                 \o Number(MIN_TIMEOUT_SECS) \o Text(" and ", 5)
                                 \o Number(MAX_TIMEOUT_SECS) \o Text(" seconds", 8))
                /\ gemini_pc' = "returned"
                /\ UNCHANGED gemini_child
           ELSE \/ /\ gemini_child' = "running"
                   /\ gemini_pc' = "spawned"
                   /\ UNCHANGED gemini_returned
                \/ /\ gemini_returned' = GeminiErr(Text("Failed to spawn gemini command", 30))
                   /\ gemini_pc' = "returned"
                   /\ UNCHANGED gemini_child
    /\ UNCHANGED <<gemini_opts, gemini_exit, gemini_result, gemini_stderr, non_json_lines,
                   valid_json_seen, stdout_closed, stderr_closed, gemini_reads>>
    /\ UNCHANGED <<codecVars, handlerVars, codexVars, grokVars, pipeVars>>

\* lines 228-238: the prompt is written to the child's stdin, which is then
\* closed, and run_with_child starts; a failed write ends run, and the Child is
\* dropped
GeminiWritePrompt ==
    /\ gemini_pc = "spawned"
    /\ \/ /\ gemini_pc' = "reading"
          /\ gemini_result' = NewGeminiResult(Unwrap(gemini_opts).return_all_messages)
          /\ UNCHANGED <<gemini_child, gemini_returned>>
       \/ /\ gemini_returned' = GeminiErr(Text("Failed to write prompt to stdin", 31))
          /\ gemini_child' = Dropped(gemini_child)
          /\ gemini_pc' = "returned"
          /\ UNCHANGED gemini_result
    /\ UNCHANGED <<gemini_opts, gemini_exit, gemini_stderr, non_json_lines, valid_json_seen,
                   stdout_closed, stderr_closed, gemini_reads>>
    /\ UNCHANGED <<codecVars, handlerVars, codexVars, grokVars, pipeVars>>

\* lines 287-313: the loop reads one stdout line, one of lines, if fewer than max
\* were read
ReadGeminiStdoutLine(lines, max) ==
    /\ gemini_pc = "reading"
    /\ ~stdout_closed
    /\ gemini_reads.stdout < max
    /\ \E line \in lines :
          IF line.text = <<>>
          THEN UNCHANGED <<gemini_result, non_json_lines, valid_json_seen>>
          ELSE IF IsSome(line.parsed)
          THEN /\ valid_json_seen' = TRUE
               /\ gemini_result' = process_json_line(Unwrap(line.parsed), gemini_result,
                                                     Unwrap(gemini_opts).return_all_messages)
               /\ UNCHANGED non_json_lines
          ELSE /\ non_json_lines' = IF Len(non_json_lines) < MAX_NON_JSON_LINES
                                    THEN Append(non_json_lines, line.text)
                                    ELSE non_json_lines
               /\ UNCHANGED <<gemini_result, valid_json_seen>>
    /\ gemini_reads' = [gemini_reads EXCEPT !.stdout = @ + 1]
    /\ UNCHANGED <<gemini_opts, gemini_pc, gemini_child, gemini_exit, gemini_stderr,
                   stdout_closed, stderr_closed, gemini_returned>>
    /\ UNCHANGED <<codecVars, handlerVars, codexVars, grokVars, pipeVars>>

\* line 314: the loop reads the end of stdout
GeminiStdoutEof ==
    /\ gemini_pc = "reading"
    /\ ~stdout_closed
    /\ stdout_closed' = TRUE
    /\ UNCHANGED <<gemini_opts, gemini_pc, gemini_child, gemini_exit, gemini_result,
                   gemini_stderr, non_json_lines, valid_json_seen, stderr_closed,
                   gemini_reads, gemini_returned>>
    /\ UNCHANGED <<codecVars, handlerVars, codexVars, grokVars, pipeVars>>

\* line 289: reading stdout fails, run_with_child returns the error, and the Child
\* is dropped
GeminiStdoutError ==
    /\ gemini_pc = "reading"
    /\ ~stdout_closed
    /\ gemini_returned' = GeminiErr(Text("Failed to read from stdout", 26))
    /\ gemini_child' = Dropped(gemini_child)
    /\ gemini_pc' = "returned"
    /\ UNCHANGED <<gemini_opts, gemini_exit, gemini_result, gemini_stderr, non_json_lines,
                   valid_json_seen, stdout_closed, stderr_closed, gemini_reads>>
    /\ UNCHANGED <<codecVars, handlerVars, codexVars, grokVars, pipeVars>>

\* lines 317-333: the loop reads one stderr line, one of lines, if fewer than max
\* were read
ReadGeminiStderrLine(lines, max) ==
    /\ gemini_pc = "reading"
    /\ ~stderr_closed
    /\ gemini_reads.stderr < max
    /\ \E line \in lines : gemini_stderr' = GeminiStderrStep(gemini_stderr, line)
    /\ gemini_reads' = [gemini_reads EXCEPT !.stderr = @ + 1]
    /\ UNCHANGED <<gemini_opts, gemini_pc, gemini_child, gemini_exit, gemini_result,
                   non_json_lines, valid_json_seen, stdout_closed, stderr_closed,
                   gemini_returned>>
    /\ UNCHANGED <<codecVars, handlerVars, codexVars, grokVars, pipeVars>>

\* lines 334-339: the loop reads the end of stderr, or fails to read it
GeminiStderrEof ==
    /\ gemini_pc = "reading"
    /\ ~stderr_closed
    /\ stderr_closed' = TRUE
    /\ UNCHANGED <<gemini_opts, gemini_pc, gemini_child, gemini_exit, gemini_result,
                   gemini_stderr, non_json_lines, valid_json_seen, stdout_closed,
                   gemini_reads, gemini_returned>>
    /\ UNCHANGED <<codecVars, handlerVars, codexVars, grokVars, pipeVars>>

\* the child exits by itself
GeminiChildExits ==
    /\ gemini_pc \in {"spawned", "reading"}
    /\ gemini_child = "running"
    /\ gemini_child' = "exited"
    /\ \E code \in {0, 1} : gemini_exit' = Some(code)
    /\ UNCHANGED <<gemini_opts, gemini_pc, gemini_result, gemini_stderr, non_json_lines,
                   valid_json_seen, stdout_closed, stderr_closed, gemini_reads,
                   gemini_returned>>
    /\ UNCHANGED <<codecVars, handlerVars, codexVars, grokVars, pipeVars>>

\* lines 344-381: both streams are closed; wait for the child and return the result
GeminiWaitAndReturn ==
    /\ gemini_pc = "reading"
    /\ stdout_closed
    /\ stderr_closed
    /\ gemini_child = "exited"
    /\ gemini_returned' = GeminiOk(GeminiFinish(gemini_result, ExitStatus(gemini_exit),
                                                gemini_stderr.stderr_output, non_json_lines,
                                                valid_json_seen))
    /\ gemini_pc' = "returned"
    /\ UNCHANGED <<gemini_opts, gemini_child, gemini_exit, gemini_result, gemini_stderr,
                   non_json_lines, valid_json_seen, stdout_closed, stderr_closed,
                   gemini_reads>>
    /\ UNCHANGED <<codecVars, handlerVars, codexVars, grokVars, pipeVars>>

\* lines 241-247: the timeout elapses first, and Child::kill sends the kill
\* to a child that is still running
GeminiTimerFires ==
    /\ gemini_pc \in {"spawned", "reading"}
    /\ gemini_child' = IF gemini_child = "running" THEN "killed" ELSE gemini_child
    /\ gemini_pc' = "killing"
    /\ UNCHANGED <<gemini_opts, gemini_exit, gemini_result, gemini_stderr, non_json_lines,
                   valid_json_seen, stdout_closed, stderr_closed, gemini_reads,
                   gemini_returned>>
    /\ UNCHANGED <<codecVars, handlerVars, codexVars, grokVars, pipeVars>>

\* the operating system ends a child that was sent the kill
GeminiKilledChildDies ==
    /\ gemini_pc = "killing"
    /\ gemini_child = "killed"
    /\ gemini_child' = "dead"
    /\ UNCHANGED <<gemini_opts, gemini_pc, gemini_exit, gemini_result, gemini_stderr,
                   non_json_lines, valid_json_seen, stdout_closed, stderr_closed,
                   gemini_reads, gemini_returned>>
    /\ UNCHANGED <<codecVars, handlerVars, codexVars, grokVars, pipeVars>>

\* line 247: child.kill().await; tokio's Child::kill is start_kill followed by
\* wait, so it is over once the child's exit has been observed
GeminiKillAwaited ==
    /\ gemini_pc = "killing"
    /\ gemini_child \in {"exited", "dead"}
    /\ gemini_pc' = "grace"
    /\ UNCHANGED <<gemini_opts, gemini_child, gemini_exit, gemini_result, gemini_stderr,
                   non_json_lines, valid_json_seen, stdout_closed, stderr_closed,
                   gemini_reads, gemini_returned>>
    /\ UNCHANGED <<codecVars, handlerVars, codexVars, grokVars, pipeVars>>

\* lines 248-253: timeout(5 s, child.wait()) is over when the exit is observed
\* or the five seconds have passed, and run returns the error
GeminiGraceWait ==
    /\ gemini_pc = "grace"
    /\ LET o == Unwrap(gemini_opts)
           secs == IF IsSome(o.timeout_secs) THEN Unwrap(o.timeout_secs)
                   ELSE get_default_timeout(o.GEMINI_DEFAULT_TIMEOUT)
       IN  gemini_returned' = GeminiErr(Text("Gemini command timed out after ", 31)
                                        \o Number(secs) \o Text(" seconds", 8))
    /\ gemini_pc' = "returned"
    /\ UNCHANGED <<gemini_opts, gemini_child, gemini_exit, gemini_result, gemini_stderr,
                   non_json_lines, valid_json_seen, stdout_closed, stderr_closed,
                   gemini_reads>>
    /\ UNCHANGED <<codecVars, handlerVars, codexVars, grokVars, pipeVars>>

\* the most stdout lines and the most stderr lines the loop reads in one run
MaxGeminiLines == 2

MaxGeminiErrLines == 2

\* the lines a child may write to stdout: {"type":"init","session_id":"S1"}, an
\* assistant's message, the CLI's own deprecation notice, an error event with a
\* message, one with an error object that has none, a line that is no JSON and
\* an empty line
GeminiLines ==
    LET Message(content) ==
            GeminiEvent(None, <<"m", "e", "s", "s", "a", "g", "e">>, "assistant",
                        Some(content), "absent", None, None)
    IN  { Line(35, Text("init", 34),
               Some(GeminiEvent(Some(Text("S1", 2)), <<"i", "n", "i", "t">>, "", None, "absent",
                                None, None))),
          Line(53, Text("message", 52), Some(Message(Text("hi", 2)))),
          Line(93, Text("notice", 92), Some(Message(PROMPT_DEPRECATION_WARNING))),
          Line(34, Text("error with message", 33),
               Some(GeminiEvent(None, <<"E", "r", "r", "o", "r">>, "", None, "absent", None,
                                Some(Text("boom", 4))))),
          Line(30, Text("error object", 29),
               Some(GeminiEvent(None, <<"i", "n", "f", "o">>, "", None, "object", None,
                                Some(Text("boom", 4))))),
          Line(5, Text("oops", 4), None),
          Line(1, <<>>, None) }

\* the lines a child may write to stderr: a short one, and one longer than
\* MAX_STDERR_BYTES
GeminiStderrLines == {Text("warn", 4), Text("long", MAX_STDERR_BYTES + 1)}

\* the Options of a run, with what the environment holds for GEMINI_DEFAULT_TIMEOUT
GeminiBaseOptions ==
    [prompt |-> <<"h", "i">>, sandbox |-> FALSE, session_id |-> None,
     return_all_messages |-> FALSE, model |-> None, timeout_secs |-> None,
     GEMINI_DEFAULT_TIMEOUT |-> EnvErr("NotPresent")]

GeminiOptions ==
    { [GeminiBaseOptions EXCEPT !.return_all_messages = all] : all \in BOOLEAN }
    \cup { [GeminiBaseOptions EXCEPT !.timeout_secs = Some(t)] : t \in {0, 30, 4000} }
    \cup { [GeminiBaseOptions EXCEPT !.prompt = <<" ">>],
           [GeminiBaseOptions EXCEPT !.GEMINI_DEFAULT_TIMEOUT = EnvOk(<<"9", "0">>)] }

GeminiStdoutLine == ReadGeminiStdoutLine(GeminiLines, MaxGeminiLines)

GeminiStderrLine == ReadGeminiStderrLine(GeminiStderrLines, MaxGeminiErrLines)

GeminiNext ==
    \/ GeminiSpawn
    \/ GeminiWritePrompt
    \/ GeminiStdoutLine
    \/ GeminiStdoutEof
    \/ GeminiStdoutError
    \/ GeminiStderrLine
    \/ GeminiStderrEof
    \/ GeminiChildExits
    \/ GeminiWaitAndReturn
    \/ GeminiTimerFires
    \/ GeminiKilledChildDies
    \/ GeminiKillAwaited
    \/ GeminiGraceWait

-----------------------------------------------------------------------------
(* The HTTP streamer's retry loop (src/src/tools/grok/provider.rs). Waits   *)
(* are whole seconds: the multiplier is an integer and the jitter is drawn  *)
(* from 0 .. base - 1 in place of the real interval [0, base).              *)

RETRYABLE_STATUS_CODES == {408, 429, 500, 502, 503, 504}

is_retryable_status(status) == status \in RETRYABLE_STATUS_CODES

\* A Retry-After header value: its text, and what parse_from_rfc2822 and the clock
\* make of it, the seconds from now to the date it names, if it names one
HeaderValue(text, date) == [text |-> text, date |-> date]

parse_retry_after(header_value) ==
    LET header == Trim(header_value.text)
        secs == ParseUsize(header)
    IN  IF IsSome(secs) THEN secs
        ELSE IF IsSome(header_value.date)
        THEN Some(IF Unwrap(header_value.date) > 0 THEN Unwrap(header_value.date) ELSE 0)
        ELSE None

\* 2.0_f64.powi(attempt)
RECURSIVE powi2(_)
powi2(n) == IF n = 0 THEN 1 ELSE 2 * powi2(n - 1)

\* the jitters gen_range(0.0..base) may draw; none when the range is empty, where
\* gen_range panics
JitterRange(attempt_no, multiplier) == 0 .. (multiplier * powi2(attempt_no) - 1)

\* exponential_backoff_with_jitter without the cap of max_wait
BackoffUncapped(attempt_no, multiplier, max_wait, jitter) ==
    multiplier * powi2(attempt_no) + jitter

\* exponential_backoff_with_jitter, for the jitter drawn
exponential_backoff_with_jitter(attempt_no, multiplier, max_wait, jitter) ==
    LET base == multiplier * powi2(attempt_no)
        wait == base + jitter
    IN  Min({wait, max_wait})

\* the waits exponential_backoff_with_jitter may return
Backoffs(attempt_no, multiplier, max_wait) ==
    { exponential_backoff_with_jitter(attempt_no, multiplier, max_wait, jitter) :
        jitter \in JitterRange(attempt_no, multiplier) }

\* what reqwest's send gives: a network error, or a response with its status, its
\* Retry-After header if it has one, and whether its body can be read to its end
NetworkError == [kind |-> "network", status |-> 0, retry_after |-> None, readable |-> FALSE]

Response(status, retry_after, body_ok) ==
    [kind |-> "response", status |-> status, retry_after |-> retry_after,
     readable |-> body_ok]

\* lines 385-395: the wait after a retryable status, one of the set
WaitAfterStatus(response, attempt_no, multiplier, max_wait) ==
    LET header == IF response.status = 429 /\ IsSome(response.retry_after)
                  THEN parse_retry_after(Unwrap(response.retry_after))
                  ELSE None
    IN  IF IsSome(header) THEN {Unwrap(header)}
        ELSE Backoffs(attempt_no, multiplier, max_wait)

\* execute_stream_with_retry is called under the Config, if any; it is not called
\* otherwise
GrokInit(run) ==
    /\ grok_cfg = run
    /\ grok_pc = IF IsSome(run) THEN "sending" ELSE "idle"
    /\ attempt = 0
    /\ grok_log = <<>>
    /\ grok_returned = None

\* the loop ends and the call returns what
GrokReturn(sent, what) ==
    /\ grok_log' = Append(grok_log, [sent |-> sent, attempt |-> attempt, wait |-> None])
    /\ grok_returned' = Some(what)
    /\ grok_pc' = "returned"
    /\ UNCHANGED attempt

\* the loop sleeps one of waits and goes to the next attempt; with no wait to
\* choose the backoff has panicked
GrokSleep(sent, waits) ==
    IF waits = {}
    THEN /\ grok_log' = Append(grok_log, [sent |-> sent, attempt |-> attempt, wait |-> None])
         /\ grok_pc' = "panicked"
         /\ UNCHANGED <<attempt, grok_returned>>
    ELSE /\ \E wait_secs \in waits :
               grok_log' = Append(grok_log, [sent |-> sent, attempt |-> attempt,
                                             wait |-> Some(wait_secs)])
         /\ attempt' = attempt + 1
         /\ UNCHANGED <<grok_pc, grok_returned>>

\* lines 356-411: one turn of the loop, from the request to the return or to the
\* end of the sleep, for a request that gets one of responses
SendRequest(responses) ==
    /\ grok_pc = "sending"
    /\ LET cfg == Unwrap(grok_cfg)
       IN  \E sent \in responses :
              IF sent.kind = "response"
              THEN IF sent.status \in 200..299
                   THEN GrokReturn(sent, [ok |-> sent.readable,
                                          err |-> IF sent.readable THEN "" ELSE "stream",
                                          status |-> sent.status])
                   ELSE IF ~is_retryable_status(sent.status) \/ attempt = cfg.max_attempts
                   THEN GrokReturn(sent, [ok |-> FALSE, err |-> "API request failed with HTTP",
                                          status |-> sent.status])
                   ELSE GrokSleep(sent, WaitAfterStatus(sent, attempt, cfg.multiplier,
                                                        cfg.max_wait))
              ELSE IF attempt = cfg.max_attempts
                   THEN GrokReturn(sent, [ok |-> FALSE,
                                          err |-> "API request failed after all retries",
                                          status |-> 0])
                   ELSE GrokSleep(sent, Backoffs(attempt, cfg.multiplier, cfg.max_wait))
    /\ UNCHANGED <<grok_cfg, sseVars>>
    /\ UNCHANGED <<codecVars, handlerVars, codexVars, geminiVars, pipeVars>>

\* what a request may get
GrokResponses ==
    { NetworkError, Response(200, None, TRUE), Response(200, None, FALSE),
      Response(404, None, TRUE), Response(503, None, TRUE), Response(429, None, TRUE),
      Response(429, Some(HeaderValue(<<"2">>, None)), TRUE),
      Response(429, Some(HeaderValue(<<"6", "0">>, None)), TRUE),
      Response(429, Some(HeaderValue(<<"s", "o", "o", "n">>, None)), TRUE),
      Response(429, Some(HeaderValue(<<"W", "e", "d">>, Some(30))), TRUE),
      Response(429, Some(HeaderValue(<<"T", "u", "e">>, Some(-5))), TRUE) }

\* the Configs of a call: GROK_RETRY_MAX_ATTEMPTS, GROK_RETRY_MULTIPLIER and
\* GROK_RETRY_MAX_WAIT, the defaults among them
GrokConfigs ==
    { [max_attempts |-> a, multiplier |-> m, max_wait |-> w] :
        a \in {0, 1, 3}, m \in {0, 1, 2}, w \in {3, 10} }

GrokRequest == SendRequest(GrokResponses)

GrokNext == GrokRequest

-----------------------------------------------------------------------------
(* Runs of the two CLIs whose child writes enough to meet the caps.         *)

\* the most stdout lines the loop reads in a Codex run that fills all_messages
MaxBulkLines == 51

\* an item.completed event of a reasoning item whose serialization is one byte
\* short of 1 MiB, so that its line is as long as a line may be
BulkLines ==
    { JsonLine("bulk",
               Event(TRUE,
                     Some(<<"i", "t", "e", "m", ".", "c", "o", "m", "p", "l", "e", "t", "e", "d">>),
                     None, Some("reasoning"), Some(Text("hm...", MAX_LINE_LENGTH - 64)), FALSE,
                     None, None, MAX_LINE_LENGTH - 1),
               MAX_LINE_LENGTH - 1) }

\* the options of the runs that fill all_messages: the default limit, a limit of 2,
\* and a limit above MAX_MESSAGE_LIMIT
BulkOptions ==
    { [BaseOptions EXCEPT !.return_all_messages = TRUE, !.return_all_messages_limit = limit] :
        limit \in {None, Some(2), Some(MAX_MESSAGE_LIMIT + 1)} }

StdoutBulk == ReadStdoutLine(BulkLines, MaxBulkLines, FALSE)

\* the most stdout lines the loop reads in a Gemini run that fills all_messages
MaxGeminiBulkLines == 10001

\* {"type":"tool_use"}
GeminiBulkLines ==
    { Line(20, Text("tool_use", 19),
           Some(GeminiEvent(None, <<"t", "o", "o", "l", "_", "u", "s", "e">>, "", None, "absent",
                            None, None))) }

GeminiBulkOptions == {[GeminiBaseOptions EXCEPT !.return_all_messages = TRUE]}

GeminiStdoutBulk == ReadGeminiStdoutLine(GeminiBulkLines, MaxGeminiBulkLines)

\* a Codex run to its return, a Gemini run to the end of its child's stdout
CliBulkNext ==
    \/ Spawn
    \/ WritePrompt
    \/ StdoutBulk
    \/ StdoutEof
    \/ StderrEof
    \/ ChildExits
    \/ WaitAndReturn
    \/ GeminiSpawn
    \/ GeminiWritePrompt
    \/ GeminiStdoutBulk
    \/ GeminiStdoutEof

\* the most short events the child writes after the long ones
MaxSmallLines == 1

\* {"type":"turn.completed"}
SmallLines ==
    { JsonLine("small",
               Event(TRUE,
                     Some(<<"t", "u", "r", "n", ".", "c", "o", "m", "p", "l", "e", "t", "e", "d">>),
                     None, None, None, FALSE, None, None, 25),
               25) }

\* the child writes MaxBulkLines long events and then short ones
StdoutBulkThenSmall ==
    ReadStdoutLine(IF stdout_lines < MaxBulkLines THEN BulkLines ELSE SmallLines,
                   MaxBulkLines + MaxSmallLines, FALSE)

\* a Codex run to its return
CodexBulkNext ==
    \/ Spawn
    \/ WritePrompt
    \/ StdoutBulkThenSmall
    \/ StdoutEof
    \/ StderrEof
    \/ ChildExits
    \/ WaitAndReturn

\* the most stderr lines the stderr task reads in a Codex run that fills the
\* captured stderr
MaxStderrBurstLines == 2

\* a short line, a line that with its newline is as long as the cap, and one longer
\* than a line may be
StderrBurstLines ==
    { Line(5, Text("warn", 4), None),
      Line(MAX_STDERR_SIZE, Text("full", MAX_STDERR_SIZE - 1), None),
      Line(MAX_LINE_LENGTH + 2, Text("long", MAX_LINE_LENGTH + 1), None) }

StderrBurst == ReadStderrLine(StderrBurstLines, MaxStderrBurstLines)

CliStderrNext ==
    \/ Spawn
    \/ WritePrompt
    \/ StdoutEof
    \/ StderrBurst
    \/ StderrEof
    \/ ChildExits
    \/ WaitAndReturn
    \/ GeminiSpawn
    \/ GeminiWritePrompt
    \/ GeminiStdoutEof
    \/ GeminiStderrLine
    \/ GeminiStderrEof
    \/ GeminiChildExits
    \/ GeminiWaitAndReturn


-----------------------------------------------------------------------------
(* The other tool handlers of UnifiedServer (src/src/server.rs): gemini,    *)
(* gemini_image, web_search and web_fetch.  A call names its tool; the      *)
(* handler of the gemini tool calls gemini::run, the handlers of the web    *)
(* tools call the HTTP streamer.                                            *)

\* a call of the tool, with the fields of c
ToolCall(tool, c) == [tool |-> tool] @@ c

\* the call is one of the tool and has not been answered
Called(tool) ==
    /\ IsSome(call)
    /\ Unwrap(call).tool = tool
    /\ reply = None

\* UnifiedServer::gemini, lines 397-453: the arguments are checked, and
\* gemini::run is called with the Options made of them
gemini ==
    /\ Called("gemini")
    /\ gemini_pc = "idle"
    /\ LET c == Unwrap(call)
           a == c.args
       IN  IF ~c.gemini_available
           THEN /\ reply' = Reply("internal_error", Text("Gemini CLI not found in PATH. ...", 75),
                                  None, <<>>, <<>>, None)
                /\ UNCHANGED <<gemini_opts, gemini_pc>>
           ELSE IF Trim(a.prompt) = <<>>
           THEN /\ reply' = Reply("invalid_params",
                                  Text("PROMPT is required and must be a non-empty, ...", 65),
                                  None, <<>>, <<>>, None)
                /\ UNCHANGED <<gemini_opts, gemini_pc>>
           ELSE IF IsSome(a.model) /\ Trim(Unwrap(a.model)) = <<>>
           THEN /\ reply' = Reply("invalid_params",
                                  Text("Model overrides must be explicitly requested ...", 82),
                                  None, <<>>, <<>>, None)
                /\ UNCHANGED <<gemini_opts, gemini_pc>>
           ELSE IF /\ IsSome(a.timeout_secs)
                   /\ Unwrap(a.timeout_secs) \notin MIN_TIMEOUT_SECS..MAX_TIMEOUT_SECS
           THEN /\ reply' = Reply("invalid_params",
                                  Text("timeout_secs must be between ", 29)
                                  \o Number(MIN_TIMEOUT_SECS) \o Text(" and ", 5)
                                  \o Number(MAX_TIMEOUT_SECS) \o Text(" seconds", 8),
                                  None, <<>>, <<>>, None)
                /\ UNCHANGED <<gemini_opts, gemini_pc>>
           ELSE /\ gemini_opts' =
                       Some([prompt |-> a.prompt, sandbox |-> a.sandbox,
                             session_id |-> IF a.session_id = Some(<<>>) THEN None
                                            ELSE a.session_id,
                             return_all_messages |-> a.return_all_messages,
                             model |-> a.model, timeout_secs |-> a.timeout_secs,
                             GEMINI_DEFAULT_TIMEOUT |-> c.env.GEMINI_DEFAULT_TIMEOUT])
                /\ gemini_pc' = "init"
                /\ UNCHANGED reply
    /\ UNCHANGED <<call, gemini_child, gemini_exit, gemini_result, gemini_stderr,
                   non_json_lines, valid_json_seen, stdout_closed, stderr_closed,
                   gemini_reads, gemini_returned>>
    /\ UNCHANGED <<codecVars, codexVars, grokVars, pipeVars>>

\* run_gemini, lines 329-378: what gemini::run returned becomes the answer
run_gemini ==
    /\ Called("gemini")
    /\ gemini_pc = "returned"
    /\ LET ret == Unwrap(gemini_returned)
       IN  reply' =
               IF ~ret.ok
               THEN Reply("internal_error", Text("Failed to execute gemini: ", 26) \o ret.err,
                          gemini_opts, <<>>, <<>>, None)
               ELSE IF ret.result.success
               THEN Reply("ok", <<>>, gemini_opts, <<>>, <<>>, Some(ret.result))
               ELSE Reply("internal_error",
                          IF IsSome(ret.result.error) THEN Unwrap(ret.result.error)
                          ELSE Text("Unknown error", 13),
                          gemini_opts, <<>>, <<>>, None)
    /\ UNCHANGED call
    /\ UNCHANGED <<codecVars, codexVars, geminiVars, grokVars, pipeVars>>

\* UnifiedServer::gemini_image, lines 473-617: the prompt and the environment
\* are checked, and generate_image posts the request, which is answered or not
gemini_image ==
    /\ Called("gemini_image")
    /\ LET c == Unwrap(call)
           model == IF IsSome(c.args.model) /\ Trim(Unwrap(c.args.model)) # <<>>
                    THEN c.args.model ELSE c.env.GEMINI_IMAGE_MODEL
           request == [url |-> Unwrap(c.env.GEMINI_API_URL), model |-> Unwrap(model),
                       prompt |-> c.args.prompt]
       IN  IF Trim(c.args.prompt) = <<>>
           THEN reply' = Reply("invalid_params",
                               Text("PROMPT is required and must be a non-empty, ...", 65),
                               None, <<>>, <<>>, None)
           ELSE IF c.env.GEMINI_API_URL = None
           THEN reply' = Reply("internal_error",
                               Text("GEMINI_API_URL environment variable is not set", 46),
                               None, <<>>, <<>>, None)
           ELSE IF c.env.GEMINI_IMAGE_API_KEY = None
           THEN reply' = Reply("internal_error",
                               Text("GEMINI_IMAGE_API_KEY environment variable is not set", 52),
                               None, <<>>, <<>>, None)
           ELSE IF model = None
           THEN reply' = Reply("internal_error",
                               Text("No model specified and GEMINI_IMAGE_MODEL ...", 73),
                               None, <<>>, <<>>, None)
           ELSE \/ reply' = Reply("ok", <<>>, Some(request), <<>>, <<>>, None)
                \/ reply' = Reply("internal_error", Text("Image generation failed: ...", 28),
                                  Some(request), <<>>, <<>>, None)
    /\ UNCHANGED call
    /\ UNCHANGED <<codecVars, codexVars, geminiVars, grokVars, pipeVars>>

\* web_search (lines 776-805) and web_fetch (lines 812-837) check the text of
\* the call; tools::web_search and tools::web_fetch (tools/grok/tools.rs) read
\* the configuration, and the provider calls execute_stream_with_retry
WebTool(tool, text, unavailable, required) ==
    /\ Called(tool)
    /\ grok_pc = "idle"
    /\ LET c == Unwrap(call)
       IN  IF ~c.grok_available
           THEN /\ reply' = Reply("internal_error", unavailable, None, <<>>, <<>>, None)
                /\ UNCHANGED <<grok_cfg, grok_pc>>
           ELSE IF Trim(text) = <<>>
           THEN /\ reply' = Reply("invalid_params", required, None, <<>>, <<>>, None)
                /\ UNCHANGED <<grok_cfg, grok_pc>>
           ELSE IF c.env.GROK_API_URL = None \/ c.env.GROK_API_KEY = None
           THEN /\ reply' = Reply("internal_error",
                                  Text("Web ... failed: Configuration error: ...", 40),
                                  None, <<>>, <<>>, None)
                /\ UNCHANGED <<grok_cfg, grok_pc>>
           ELSE /\ grok_cfg' = Some(c.env.retry)
                /\ grok_pc' = "sending"
                /\ UNCHANGED reply
    /\ UNCHANGED <<call, attempt, grok_log, grok_returned, sseVars>>
    /\ UNCHANGED <<codecVars, codexVars, geminiVars, pipeVars>>

web_search ==
    WebTool("web_search", IF Called("web_search") THEN Unwrap(call).args.query ELSE <<>>, Text("GROK_API_URL or GROK_API_KEY not configured. ... web search.", 97), Text("query is required and must be a non-empty string", 48))

web_fetch ==
    WebTool("web_fetch", IF Called("web_fetch") THEN Unwrap(call).args.url ELSE <<>>, Text("GROK_API_URL or GROK_API_KEY not configured. ... web fetch.", 96), Text("url is required and must be a non-empty string", 46))

\* the web tool's answer, of what execute_stream_with_retry returned
WebReply ==
    /\ IsSome(call)
    /\ Unwrap(call).tool \in {"web_search", "web_fetch"}
    /\ reply = None
    /\ grok_pc = "returned"
    /\ reply' = IF Unwrap(grok_returned).ok
                THEN Reply("ok", <<>>, grok_cfg, <<>>, <<>>, None)
                ELSE Reply("internal_error", Text("Web ... failed: ", 16), grok_cfg,
                           <<>>, <<>>, None)
    /\ UNCHANGED call
    /\ UNCHANGED <<codecVars, codexVars, geminiVars, grokVars, pipeVars>>

\* the codex handler, for a call of the codex tool
codex_tool ==
    /\ Called("codex")
    /\ codex

\* the calls of the gemini tool: one that passes with and without a model, and
\* one for every check
GeminiCalls ==
    LET GeminiArgs(prompt, model, timeout_secs) ==
            [prompt |-> prompt, sandbox |-> FALSE, session_id |-> Some(<<>>),
             return_all_messages |-> FALSE, model |-> model, timeout_secs |-> timeout_secs]
        Call(available, a) ==
            ToolCall("gemini", [gemini_available |-> available, args |-> a,
                                env |-> [GEMINI_DEFAULT_TIMEOUT |-> EnvErr("NotPresent")]])
    IN  { Call(available, GeminiArgs(prompt, model, t)) :
            available \in BOOLEAN, prompt \in {<<>>, <<" ", "\n">>, <<"h", "i">>},
            model \in {None, Some(<<" ">>), Some(<<"p", "r", "o">>)},
            t \in {None, Some(0), Some(1), Some(3601)} }

ImageCalls ==
    { ToolCall("gemini_image",
               [args |-> [prompt |-> prompt, model |-> model],
                env |-> [GEMINI_API_URL |-> url, GEMINI_IMAGE_API_KEY |-> key,
                         GEMINI_IMAGE_MODEL |-> env_model]]) :
        prompt \in {<<>>, <<"\t">>, <<"h", "i">>}, model \in {None, Some(<<" ">>)},
        url \in {None, Some(<<"u">>)}, key \in {None, Some(<<"k">>)},
        env_model \in {None, Some(<<"m">>)} }

WebCalls ==
    LET Env(url, key) ==
            [GROK_API_URL |-> url, GROK_API_KEY |-> key,
             retry |-> [max_attempts |-> 1, multiplier |-> 1, max_wait |-> 3]]
    IN  { ToolCall("web_search", [grok_available |-> available, args |-> [query |-> text],
                                  env |-> Env(url, Some(<<"k">>))]) :
            available \in BOOLEAN, text \in {<<>>, <<" ">>, <<"q">>},
            url \in {None, Some(<<"u">>)} }
        \cup
        { ToolCall("web_fetch", [grok_available |-> available, args |-> [url |-> text],
                                 env |-> Env(Some(<<"u">>), key)]) :
            available \in BOOLEAN, text \in {<<>>, <<" ", " ">>, <<"u">>},
            key \in {None, Some(<<"k">>)} }

\* the calls of the codex tool that ask for everything with nothing granted
CodexToolCalls ==
    {ToolCall("codex", c) : c \in {k \in CodexCalls : k.env.CODEX_ALLOW_DANGEROUS = None /\ k.env.CODEX_ALLOW_YOLO = None /\ k.env.CODEX_ALLOW_SKIP_GIT_CHECK = None}}

ToolCalls == CodexToolCalls \cup GeminiCalls \cup ImageCalls \cup WebCalls

ToolsNext ==
    \/ codex_tool
    \/ gemini
    \/ run_gemini
    \/ gemini_image
    \/ web_search
    \/ web_fetch
    \/ WebReply
    \/ GeminiNext
    \/ GrokNext

-----------------------------------------------------------------------------
(* The pipes of one run. run_internal (tools/codex.rs 223-443) and run with   *)
(* run_with_child (tools/gemini.rs 226-347) write the prompt to the child's   *)
(* stdin, read its stdout and its stderr, and wait for its exit. A pipe holds *)
(* PipeCapacity chunks: a write to a full pipe waits for a read, a read of an *)
(* empty pipe waits for a write or for the other end to close.               *)

\* the chunks a pipe holds
PipeCapacity == 1

\* the most chunks of a prompt
MaxPromptChunks == 2

\* the most steps a child takes before it exits
MaxKidSteps == 4

\* what a child writes to stdout: an event, a line that is no JSON or is too
\* long, an event that meets a truncation cap
StdoutKinds == {"event", "bad", "bulk"}

\* what a child writes to stderr: a short line, a line that meets the cap
StderrKinds == {"warn", "big"}

\* what a child does step by step: read a chunk of its stdin, write a line,
\* close its stdout
KidSteps == {"read", "close"} \cup StdoutKinds \cup StderrKinds

\* a run to start: the CLI, the chunks of the prompt that go through stdin (none
\* when Codex takes the prompt as an argument, lines 210-217), and what the child
\* does first
PipePlans ==
    { [cli |-> c, prompt |-> n, todo |-> t] :
        c \in {"codex", "gemini"}, n \in 0..MaxPromptChunks, t \in KidSteps \cup {"exit"} }
    \ { [cli |-> "gemini", prompt |-> 0, todo |-> t] : t \in KidSteps \cup {"exit"} }

\* the state after the spawn
PipesInit(run) ==
    /\ io_cli = IF IsSome(run) THEN Unwrap(run).cli ELSE "none"
    /\ io_pc = IF IsSome(run) THEN "writing" ELSE "idle"
    /\ prompt_left = IF IsSome(run) THEN Unwrap(run).prompt ELSE 0
    /\ stdin_pipe = <<>>
    /\ stdout_pipe = <<>>
    /\ stderr_pipe = <<>>
    /\ stdout_reading = "unstarted"
    /\ stderr_reading = "unstarted"
    /\ flagged = {}
    /\ kid = IF IsSome(run)
             THEN [state |-> "running", todo |-> Unwrap(run).todo, steps |-> 1,
                   stdout_open |-> TRUE]
             ELSE [state |-> "none", todo |-> "exit", steps |-> 0, stdout_open |-> FALSE]
    /\ io_returned = "none"

\* the child has done what it had to do: it turns to its next step, or to its
\* exit; it takes MaxKidSteps steps at most
KidGoesOn(k) ==
    {[k EXCEPT !.todo = "exit"]}
    \cup {[k EXCEPT !.todo = t, !.steps = @ + 1] : t \in IF k.steps < MaxKidSteps THEN KidSteps ELSE {}}

\* kill_on_drop, start_kill: a running child is killed
Killed(k) == IF k.state = "running" THEN [k EXCEPT !.state = "killed"] ELSE k

\* codex.rs 432: the stdout loop is over, child.wait follows; gemini.rs 283: the
\* loop is over when both streams are closed
AfterDrain(cli, out, err) ==
    IF out # "reading" /\ (cli = "codex" \/ err # "reading") THEN "waiting" ELSE "draining"

\* codex.rs 225-240, gemini.rs 228-234: the prompt has been written, or there is
\* none to write; stdin is dropped and the reading starts
IoPromptWritten ==
    /\ io_pc = "writing"
    /\ prompt_left = 0
    /\ io_pc' = "draining"
    /\ stdout_reading' = "reading"
    /\ stderr_reading' = "reading"
    /\ UNCHANGED <<io_cli, prompt_left, stdin_pipe, stdout_pipe, stderr_pipe, flagged, kid,
                   io_returned>>
    /\ UNCHANGED <<codecVars, handlerVars, codexVars, geminiVars, grokVars>>

\* codex.rs 227, gemini.rs 229-231: write_all writes the next chunk of the prompt
\* when the pipe has room for it; with the child gone the write fails with
\* BrokenPipe, which Codex tolerates (228-235) and Gemini returns (232)
IoWritePrompt ==
    /\ io_pc = "writing"
    /\ prompt_left > 0
    /\ IF kid.state = "running"
       THEN /\ Len(stdin_pipe) < PipeCapacity
            /\ stdin_pipe' = Append(stdin_pipe, "prompt")
            /\ prompt_left' = prompt_left - 1
            /\ UNCHANGED <<io_pc, stdout_reading, stderr_reading, io_returned>>
       ELSE IF io_cli = "codex"
       THEN /\ io_pc' = "draining"
            /\ stdout_reading' = "reading"
            /\ stderr_reading' = "reading"
            /\ UNCHANGED <<prompt_left, stdin_pipe, io_returned>>
       ELSE /\ io_pc' = "returned"
            /\ io_returned' = "BrokenPipe"
            /\ UNCHANGED <<prompt_left, stdin_pipe, stdout_reading, stderr_reading>>
    /\ UNCHANGED <<io_cli, stdout_pipe, stderr_pipe, flagged, kid>>
    /\ UNCHANGED <<codecVars, handlerVars, codexVars, geminiVars, grokVars>>

\* codex.rs 236-238, gemini.rs 232: the write fails otherwise; run returns the
\* error and the Child is dropped
IoWriteError ==
    /\ io_pc = "writing"
    /\ prompt_left > 0
    /\ io_pc' = "returned"
    /\ io_returned' = "err"
    /\ kid' = Killed(kid)
    /\ UNCHANGED <<io_cli, prompt_left, stdin_pipe, stdout_pipe, stderr_pipe, stdout_reading,
                   stderr_reading, flagged>>
    /\ UNCHANGED <<codecVars, handlerVars, codexVars, geminiVars, grokVars>>

\* codex.rs 316-423, gemini.rs 287-313: the stdout loop reads the next line.
\* Codex records a line that is no JSON or is too long and kills the child (324-359),
\* Gemini keeps a line that is no JSON aside (303-309); both go on reading.
IoReadStdout ==
    /\ io_pc = "draining"
    /\ stdout_reading = "reading"
    /\ stdout_pipe # <<>>
    /\ stdout_pipe' = Tail(stdout_pipe)
    /\ flagged' = CASE Head(stdout_pipe) = "bad" -> flagged \cup {"line error"}
                    [] Head(stdout_pipe) = "bulk" -> flagged \cup {"all_messages_truncated"}
                    [] OTHER -> flagged
    /\ kid' = IF Head(stdout_pipe) = "bad" /\ io_cli = "codex" THEN Killed(kid) ELSE kid
    /\ UNCHANGED <<io_cli, io_pc, prompt_left, stdin_pipe, stderr_pipe, stdout_reading,
                   stderr_reading, io_returned>>
    /\ UNCHANGED <<codecVars, handlerVars, codexVars, geminiVars, grokVars>>

\* codex.rs 320-322, gemini.rs 314: the pipe is empty and its other end closed
IoStdoutEof ==
    /\ io_pc = "draining"
    /\ stdout_reading = "reading"
    /\ stdout_pipe = <<>>
    /\ kid.state # "running" \/ ~kid.stdout_open
    /\ stdout_reading' = "eof"
    /\ io_pc' = AfterDrain(io_cli, "eof", stderr_reading)
    /\ UNCHANGED <<io_cli, prompt_left, stdin_pipe, stdout_pipe, stderr_pipe, stderr_reading,
                   flagged, kid, io_returned>>
    /\ UNCHANGED <<codecVars, handlerVars, codexVars, geminiVars, grokVars>>

\* codex.rs 424-428: reading stdout fails; the error is recorded as a parse error
\* and the loop is left, the pipe still open. gemini.rs 289: run_with_child
\* returns the error, and the timeout's future with the Child's pipes is over.
IoStdoutError ==
    /\ io_pc = "draining"
    /\ stdout_reading = "reading"
    /\ stdout_reading' = "failed"
    /\ IF io_cli = "codex"
       THEN /\ flagged' = flagged \cup {"line error"}
            /\ io_pc' = "waiting"
            /\ UNCHANGED <<kid, io_returned>>
       ELSE /\ io_pc' = "returned"
            /\ io_returned' = "err"
            /\ kid' = Killed(kid)
            /\ UNCHANGED flagged
    /\ UNCHANGED <<io_cli, prompt_left, stdin_pipe, stdout_pipe, stderr_pipe, stderr_reading>>
    /\ UNCHANGED <<codecVars, handlerVars, codexVars, geminiVars, grokVars>>

\* the stderr reading as it would be if it stopped at the cap
IoReadStderrUntilTruncated ==
    /\ \/ io_cli = "codex" /\ io_pc \in {"draining", "waiting"}
       \/ io_cli = "gemini" /\ io_pc = "draining"
    /\ stderr_reading = "reading"
    /\ "stderr_truncated" \notin flagged
    /\ stderr_pipe # <<>>
    /\ stderr_pipe' = Tail(stderr_pipe)
    /\ flagged' = IF Head(stderr_pipe) = "big" THEN flagged \cup {"stderr_truncated"}
                  ELSE flagged
    /\ UNCHANGED <<io_cli, io_pc, prompt_left, stdin_pipe, stdout_pipe, stdout_reading,
                   stderr_reading, kid, io_returned>>
    /\ UNCHANGED <<codecVars, handlerVars, codexVars, geminiVars, grokVars>>

\* codex.rs 277-300: the stderr task reads the next line, also while run_internal
\* waits for the child; gemini.rs 317-333: the select loop reads it. A line that
\* meets the cap sets the truncation flag, and the reading goes on.
IoReadStderr ==
    /\ \/ io_cli = "codex" /\ io_pc \in {"draining", "waiting"}
       \/ io_cli = "gemini" /\ io_pc = "draining"
    /\ stderr_reading = "reading"
    /\ stderr_pipe # <<>>
    /\ stderr_pipe' = Tail(stderr_pipe)
    /\ flagged' = IF Head(stderr_pipe) = "big" THEN flagged \cup {"stderr_truncated"}
                  ELSE flagged
    /\ UNCHANGED <<io_cli, io_pc, prompt_left, stdin_pipe, stdout_pipe, stdout_reading,
                   stderr_reading, kid, io_returned>>
    /\ UNCHANGED <<codecVars, handlerVars, codexVars, geminiVars, grokVars>>

\* codex.rs 281-283, gemini.rs 334: the pipe is empty and its other end closed
IoStderrEof ==
    /\ \/ io_cli = "codex" /\ io_pc \in {"draining", "waiting"}
       \/ io_cli = "gemini" /\ io_pc = "draining"
    /\ stderr_reading = "reading"
    /\ stderr_pipe = <<>>
    /\ kid.state # "running"
    /\ stderr_reading' = "eof"
    /\ io_pc' = IF io_pc = "draining" THEN AfterDrain(io_cli, stdout_reading, "eof") ELSE io_pc
    /\ UNCHANGED <<io_cli, prompt_left, stdin_pipe, stdout_pipe, stderr_pipe, stdout_reading,
                   flagged, kid, io_returned>>
    /\ UNCHANGED <<codecVars, handlerVars, codexVars, geminiVars, grokVars>>

\* codex.rs 302-305: reading stderr fails and the task ends, its end of the pipe
\* dropped with it; gemini.rs 335-338: the select arm is closed, the pipe kept
IoStderrError ==
    /\ \/ io_cli = "codex" /\ io_pc \in {"draining", "waiting"}
       \/ io_cli = "gemini" /\ io_pc = "draining"
    /\ stderr_reading = "reading"
    /\ stderr_reading' = "failed"
    /\ io_pc' = IF io_pc = "draining" THEN AfterDrain(io_cli, stdout_reading, "failed")
                ELSE io_pc
    /\ UNCHANGED <<io_cli, prompt_left, stdin_pipe, stdout_pipe, stderr_pipe, stdout_reading,
                   flagged, kid, io_returned>>
    /\ UNCHANGED <<codecVars, handlerVars, codexVars, geminiVars, grokVars>>

\* codex.rs 432-443: child.wait returns and the stderr task is joined;
\* gemini.rs 344-347: child.wait returns
IoWaitAndReturn ==
    /\ io_pc = "waiting"
    /\ kid.state # "running"
    /\ io_cli = "codex" => stderr_reading # "reading"
    /\ io_pc' = "returned"
    /\ io_returned' = "ok"
    /\ UNCHANGED <<io_cli, prompt_left, stdin_pipe, stdout_pipe, stderr_pipe, stdout_reading,
                   stderr_reading, flagged, kid>>
    /\ UNCHANGED <<codecVars, handlerVars, codexVars, geminiVars, grokVars>>

\* codex.rs 145-162, gemini.rs 241-254: the timeout elapses first, wherever the
\* run is; the child is killed
IoTimerFires ==
    /\ io_pc \in {"writing", "draining", "waiting"}
    /\ io_pc' = "returned"
    /\ io_returned' = "timeout"
    /\ kid' = Killed(kid)
    /\ UNCHANGED <<io_cli, prompt_left, stdin_pipe, stdout_pipe, stderr_pipe, stdout_reading,
                   stderr_reading, flagged>>
    /\ UNCHANGED <<codecVars, handlerVars, codexVars, geminiVars, grokVars>>

\* the child reads a chunk of its stdin, or its end once run has dropped stdin
KidReads ==
    /\ kid.state = "running"
    /\ kid.todo = "read"
    /\ \/ /\ stdin_pipe # <<>>
          /\ stdin_pipe' = Tail(stdin_pipe)
       \/ /\ stdin_pipe = <<>>
          /\ io_pc # "writing"
          /\ UNCHANGED stdin_pipe
    /\ kid' \in KidGoesOn(kid)
    /\ UNCHANGED <<io_cli, io_pc, prompt_left, stdout_pipe, stderr_pipe, stdout_reading,
                   stderr_reading, flagged, io_returned>>
    /\ UNCHANGED <<codecVars, handlerVars, codexVars, geminiVars, grokVars>>

\* the child writes a line to stdout when the pipe has room for it; the write
\* fails at once if the child has closed its stdout
KidWritesStdout ==
    /\ kid.state = "running"
    /\ kid.todo \in StdoutKinds
    /\ IF kid.stdout_open
       THEN /\ Len(stdout_pipe) < PipeCapacity
            /\ stdout_pipe' = Append(stdout_pipe, kid.todo)
       ELSE UNCHANGED stdout_pipe
    /\ kid' \in KidGoesOn(kid)
    /\ UNCHANGED <<io_cli, io_pc, prompt_left, stdin_pipe, stderr_pipe, stdout_reading,
                   stderr_reading, flagged, io_returned>>
    /\ UNCHANGED <<codecVars, handlerVars, codexVars, geminiVars, grokVars>>

\* run's end of the stderr pipe is gone: Codex's stderr task has ended
StderrDropped == io_cli = "codex" /\ stderr_reading \in {"eof", "failed"}

\* the child writes a line to stderr when the pipe has room for it; with the
\* other end gone the write fails at once, and the child goes on or ends
KidWritesStderr ==
    /\ kid.state = "running"
    /\ kid.todo \in StderrKinds
    /\ IF StderrDropped
       THEN /\ kid' \in KidGoesOn(kid) \cup {[kid EXCEPT !.state = "exited"]}
            /\ UNCHANGED stderr_pipe
       ELSE /\ Len(stderr_pipe) < PipeCapacity
            /\ stderr_pipe' = Append(stderr_pipe, kid.todo)
            /\ kid' \in KidGoesOn(kid)
    /\ UNCHANGED <<io_cli, io_pc, prompt_left, stdin_pipe, stdout_pipe, stdout_reading,
                   stderr_reading, flagged, io_returned>>
    /\ UNCHANGED <<codecVars, handlerVars, codexVars, geminiVars, grokVars>>

\* the child closes its stdout and goes on
KidClosesStdout ==
    /\ kid.state = "running"
    /\ kid.todo = "close"
    /\ kid' \in KidGoesOn([kid EXCEPT !.stdout_open = FALSE])
    /\ UNCHANGED <<io_cli, io_pc, prompt_left, stdin_pipe, stdout_pipe, stderr_pipe,
                   stdout_reading, stderr_reading, flagged, io_returned>>
    /\ UNCHANGED <<codecVars, handlerVars, codexVars, geminiVars, grokVars>>

\* the child has done all it had to do and exits
KidExits ==
    /\ kid.state = "running"
    /\ kid.todo = "exit"
    /\ kid' = [kid EXCEPT !.state = "exited"]
    /\ UNCHANGED <<io_cli, io_pc, prompt_left, stdin_pipe, stdout_pipe, stderr_pipe,
                   stdout_reading, stderr_reading, flagged, io_returned>>
    /\ UNCHANGED <<codecVars, handlerVars, codexVars, geminiVars, grokVars>>

PipesNext ==
    \/ IoPromptWritten
    \/ IoWritePrompt
    \/ IoWriteError
    \/ IoReadStdout
    \/ IoStdoutEof
    \/ IoStdoutError
    \/ IoReadStderr
    \/ IoStderrEof
    \/ IoStderrError
    \/ IoWaitAndReturn
    \/ IoTimerFires
    \/ KidReads
    \/ KidWritesStdout
    \/ KidWritesStderr
    \/ KidClosesStdout
    \/ KidExits
-----------------------------------------------------------------------------
(* The reader of a streamed response body (src/src/tools/grok/provider.rs   *)
(* parse_streaming_response). A body is a sequence of bytes that arrives in *)
(* chunks. An ASCII byte is the one-character string of its character; the  *)
(* two bytes of the character U+00E9 are 0xC3 and 0xA9. A decoded text is a *)
(* sequence of characters: an ASCII character, U+00E9 or U+FFFD.            *)

MaxSseLines == 2

MaxChunks == 2

E_ACUTE == "U+00E9"

REPLACEMENT_CHARACTER == "U+FFFD"

\* str::as_bytes for the characters of the model
RECURSIVE Utf8(_)
Utf8(chars) ==
    IF chars = <<>> THEN <<>>
    ELSE (IF Head(chars) = E_ACUTE THEN <<"0xC3", "0xA9">> ELSE <<Head(chars)>>)
         \o Utf8(Tail(chars))

\* String::from_utf8_lossy: a byte sequence that is no character becomes U+FFFD
from_utf8_lossy(bytes) ==
    LET n == Len(bytes)
        At(i) == IF bytes[i] = "0xC3"
                 THEN IF i < n /\ bytes[i + 1] = "0xA9" THEN <<E_ACUTE>>
                      ELSE <<REPLACEMENT_CHARACTER>>
                 ELSE IF bytes[i] = "0xA9"
                 THEN IF i > 1 /\ bytes[i - 1] = "0xC3" THEN <<>>
                      ELSE <<REPLACEMENT_CHARACTER>>
                 ELSE <<bytes[i]>>
        decoded == [i \in 1..n |-> At(i)]
        kept == SelectSeq(decoded, LAMBDA c : c # <<>>)
    IN  [i \in 1..Len(kept) |-> kept[i][1]]

DATA_PREFIX == <<"d", "a", "t", "a", ":">>

DONE == <<"[", "D", "O", "N", "E", "]">>

CHOICES == <<"c", "h", "o", "i", "c", "e", "s">>

DELTA == <<"d", "e", "l", "t", "a">>

MESSAGE == <<"m", "e", "s", "s", "a", "g", "e">>

CONTENT == <<"c", "o", "n", "t", "e", "n", "t">>

FINISH_REASON == <<"f", "i", "n", "i", "s", "h", "_", "r", "e", "a", "s", "o", "n">>

\* Value::get with a string index
JsonGet(v, key) ==
    IF v.t = "obj" /\ \E i \in 1..Len(v.kv) : v.kv[i].k = key
    THEN Some(v.kv[CHOOSE i \in 1..Len(v.kv) : v.kv[i].k = key].v)
    ELSE None

\* Option<&Value>::and_then(|v| v.get(key))
AndThenGet(o, key) == IF IsSome(o) THEN JsonGet(Unwrap(o), key) ELSE None

\* Option<&Value>::and_then(|v| v.as_str())
AndThenAsStr(o) == IF IsSome(o) /\ Unwrap(o).t = "str" THEN Some(Unwrap(o).s) ELSE None

\* data.get("choices").and_then(|c| c.as_array()) and choices.first()
FirstChoice(data) ==
    LET choices == JsonGet(data, CHOICES)
    IN  IF IsSome(choices) /\ Unwrap(choices).t = "arr" /\ Unwrap(choices).kv # <<>>
        THEN Some(Unwrap(choices).kv[1].v)
        ELSE None

\* the locals of parse_streaming_response
SseState(buf, text, lines, done) ==
    [line_buf |-> buf, content |-> text, full_body_lines |-> lines, finished |-> done]

\* lines 259-262
SseStart == SseState(<<>>, <<>>, <<>>, FALSE)

\* lines 285-307: what a non-empty line does, after it was pushed to
\* full_body_lines
ProcessLine(st, line) ==
    IF ~StartsWith(line, DATA_PREFIX) THEN st
    ELSE LET data_str == Trim(Drop(line, Len(DATA_PREFIX)))
             data == FromSlice(data_str)
             first == IF IsSome(data) THEN FirstChoice(Unwrap(data)) ELSE None
             delta_content == AndThenAsStr(AndThenGet(AndThenGet(first, DELTA), CONTENT))
             finish_reason == AndThenAsStr(AndThenGet(first, FINISH_REASON))
         IN  IF data_str = DONE THEN [st EXCEPT !.finished = TRUE]
             ELSE [st EXCEPT !.content = IF IsSome(delta_content)
                                         THEN @ \o Unwrap(delta_content) ELSE @,
                             !.finished = IsSome(finish_reason)]

\* lines 274-309: the lines of line_buf are cut off and processed until none is
\* left or one has ended the stream
RECURSIVE ProcessLines(_)
ProcessLines(st) ==
    LET newline_pos == FindByte(st.line_buf, {LF})
        line == Trim(Take(st.line_buf, newline_pos))
        cut == [st EXCEPT !.line_buf = Drop(st.line_buf, newline_pos + 1)]
    IN  IF newline_pos < 0 THEN st
        ELSE IF line = <<>> THEN ProcessLines(cut)
        ELSE LET pushed == [cut EXCEPT !.full_body_lines = Append(@, line)]
                 after == ProcessLine(pushed, line)
             IN  IF after.finished THEN after ELSE ProcessLines(after)

\* lines 269-309: one turn of the loop, for the chunk read
ReadChunk(st, chunk) ==
    ProcessLines([st EXCEPT !.line_buf = @ \o from_utf8_lossy(chunk)])

\* lines 317-333: the non-streaming parse of the lines retained, if no content
\* was accumulated
Fallback(st) ==
    IF st.content = <<>> /\ st.full_body_lines # <<>>
    THEN LET data == FromSlice(Concat(st.full_body_lines))
             first == IF IsSome(data) THEN FirstChoice(Unwrap(data)) ELSE None
             msg_content == AndThenAsStr(AndThenGet(AndThenGet(first, MESSAGE), CONTENT))
         IN  IF IsSome(msg_content) THEN [st EXCEPT !.content = Unwrap(msg_content)] ELSE st
    ELSE st

\* parse_streaming_response for a body read to its end in the chunks given
RECURSIVE ReadChunks(_, _)
ReadChunks(st, chunks) ==
    IF chunks = <<>> \/ st.finished THEN st
    ELSE ReadChunks(ReadChunk(st, Head(chunks)), Tail(chunks))

parse_streaming_response(chunks) == Fallback(ReadChunks(SseStart, chunks)).content

\* ---- the bodies a server sends ----

\* a chunk of a streamed completion: choices[0] with a delta and a finish_reason,
\* each present or absent
DeltaChunk(delta_content, finish_reason) ==
    JObj(<<Member(CHOICES, JArr(<<Item(JObj(
        <<Member(DELTA, JObj(IF IsSome(delta_content)
                             THEN <<Member(CONTENT, Unwrap(delta_content))>> ELSE <<>>))>>
        \o (IF IsSome(finish_reason)
            THEN <<Member(FINISH_REASON, Unwrap(finish_reason))>> ELSE <<>>)))>>))>>)

\* a line as the server sent it: its bytes, the string value of
\* choices[0].delta.content it carries if it is a data: line that carries one,
\* and whether it is a data: line with [DONE] or with a finish_reason other
\* than null
SseLine(bytes, delta_content, ends) == [bytes |-> bytes, text |-> delta_content, ends |-> ends]

DataLine(sep, payload) == DATA_PREFIX \o sep \o payload \o <<LF>>

DeltaLine(sep, delta_content, finish_reason) ==
    SseLine(DataLine(sep, Utf8(ToJson(DeltaChunk(delta_content, finish_reason)))),
            IF IsSome(delta_content) /\ Unwrap(delta_content).t = "str"
            THEN Unwrap(delta_content).s ELSE <<>>,
            IsSome(finish_reason) /\ Unwrap(finish_reason).t # "null")

\* the lines of the model's streams: deltas with a text, with null for a text
\* and with none; finish reasons absent, null, a string and a number; the two
\* forms of the prefix; the end mark; a comment
SseLines ==
    { DeltaLine(<<" ">>, Some(JStr(<<"a">>)), None),
      DeltaLine(<<>>, Some(JStr(<<E_ACUTE>>)), Some(JNull)),
      DeltaLine(<<" ">>, Some(JNull), None),
      DeltaLine(<<" ">>, Some(JStr(<<"b">>)), Some(JStr(<<"s", "t", "o", "p">>))),
      DeltaLine(<<" ">>, None, Some(JStr(<<"s", "t", "o", "p">>))),
      DeltaLine(<<" ">>, Some(JStr(<<"c">>)), Some(JNum(0))),
      SseLine(DataLine(<<" ">>, DONE), <<>>, TRUE),
      SseLine(<<":", "p", "\n">>, <<>>, FALSE) }

\* a body: the lines the server sent, if it streamed; the message content, if it
\* sent one completion object; its bytes
SseBody(lines, message, bytes) == [lines |-> lines, message |-> message, bytes |-> bytes]

\* a stream: every line is followed by an empty one
SseStreamOf(lines) ==
    SseBody(lines, None, Concat([i \in 1..Len(lines) |-> lines[i].bytes \o <<LF>>]))

RECURSIVE SeqsUpTo(_, _)
SeqsUpTo(S, n) ==
    IF n = 0 THEN {<<>>}
    ELSE LET shorter == SeqsUpTo(S, n - 1)
         IN  shorter \cup {Append(s, x) : s \in shorter, x \in S}

StreamBodies == {SseStreamOf(lines) : lines \in SeqsUpTo(SseLines, MaxSseLines) \ {<<>>}}

\* a completion that was not streamed: one object with choices[0].message.content
Completion(text) ==
    JObj(<<Member(CHOICES, JArr(<<Item(JObj(
        <<Member(MESSAGE, JObj(<<Member(CONTENT, JStr(text))>>))>>))>>))>>)

\* the object on one line
OneLine(text) == Utf8(ToJson(Completion(text)))

\* the object on several lines, indented
SeveralLines(text) ==
    <<"{", LF, " ">> \o Utf8(QuoteStr(CHOICES)) \o <<":", " ", "[", LF, " ", " ", "{">>
    \o Utf8(QuoteStr(MESSAGE)) \o <<":", LF, " ", " ", " ", "{">> \o Utf8(QuoteStr(CONTENT))
    \o <<":", " ">> \o Utf8(QuoteStr(text)) \o <<"}", LF, " ", " ", "}", "]", LF, "}">>

MessageTexts == {<<"o", "k">>, <<E_ACUTE>>, <<>>}

CompletionBodies ==
    { SseBody(<<>>, Some(text), (IF several THEN SeveralLines(text) ELSE OneLine(text))
                                \o trailer) :
        text \in MessageTexts, several \in BOOLEAN, trailer \in {<<>>, <<LF>>, <<CR, LF>>} }

\* ---- how a body arrives ----

\* the body in one chunk
Whole(bytes) == <<bytes>>

\* the body in chunks that end where its lines end
RECURSIVE ByLine(_)
ByLine(bytes) ==
    LET newline_pos == FindByte(bytes, {LF})
    IN  IF bytes = <<>> THEN <<>>
        ELSE IF newline_pos < 0 THEN <<bytes>>
        ELSE <<Take(bytes, newline_pos + 1)>> \o ByLine(Drop(bytes, newline_pos + 1))

\* the body in at most n chunks, none empty, cut anywhere
RECURSIVE Chunkings(_, _)
Chunkings(bytes, n) ==
    IF bytes = <<>> THEN {<<>>}
    ELSE IF n = 1 THEN {<<bytes>>}
    ELSE {<<bytes>>} \cup
         UNION { { <<Take(bytes, k)>> \o rest : rest \in Chunkings(Drop(bytes, k), n - 1) } :
                 k \in 1..(Len(bytes) - 1) }

Delivery(sent, chunks) == [sent |-> sent, chunks |-> chunks]

\* the bodies of the model, whole and by line
LineDeliveries ==
    { Delivery(b, c) : b \in StreamBodies \cup CompletionBodies, c \in {"whole", "by line"} }

\* the bodies through which a character of two bytes travels, cut anywhere
ChunkedBodies ==
    { SseStreamOf(<<DeltaLine(<<>>, Some(JStr(<<E_ACUTE>>)), Some(JNull)),
                 SseLine(DataLine(<<" ">>, DONE), <<>>, TRUE)>>),
      SseBody(<<>>, Some(<<E_ACUTE>>), OneLine(<<E_ACUTE>>) \o <<LF>>) }

ChunkDeliveries == { Delivery(b, "cut") : b \in ChunkedBodies }

ChunksOf(delivery) ==
    CASE delivery.chunks = "whole" -> {Whole(delivery.sent.bytes)}
      [] delivery.chunks = "by line" -> {ByLine(delivery.sent.bytes)}
      [] delivery.chunks = "cut" -> Chunkings(delivery.sent.bytes, MaxChunks)

\* ---- the run ----

\* parse_streaming_response is called with the response, if any
SseInit(run) ==
    /\ sse_pc = IF IsSome(run) THEN "reading" ELSE "idle"
    /\ sse_sent = IF IsSome(run) THEN Some(Unwrap(run).sent) ELSE None
    /\ chunks_left \in (IF IsSome(run) THEN ChunksOf(Unwrap(run)) ELSE {<<>>})
    /\ line_buf = SseStart.line_buf
    /\ sse_content = SseStart.content
    /\ full_body_lines = SseStart.full_body_lines
    /\ finished = SseStart.finished

SseLocals == SseState(line_buf, sse_content, full_body_lines, finished)

SseSet(st) ==
    /\ line_buf' = st.line_buf
    /\ sse_content' = st.content
    /\ full_body_lines' = st.full_body_lines
    /\ finished' = st.finished

\* lines 269-314: response.chunk() returns a chunk and the loop takes its turn
SseReadChunk ==
    /\ sse_pc = "reading"
    /\ ~finished
    /\ chunks_left # <<>>
    /\ SseSet(ReadChunk(SseLocals, Head(chunks_left)))
    /\ chunks_left' = Tail(chunks_left)
    /\ UNCHANGED <<sse_pc, sse_sent>>
    /\ UNCHANGED <<grok_cfg, grok_pc, attempt, grok_log, grok_returned>>
    /\ UNCHANGED <<codecVars, handlerVars, codexVars, geminiVars, pipeVars>>

\* lines 311-344: the loop is left, at the end of the body or at the break, and
\* the content is returned
SseReturn ==
    /\ sse_pc = "reading"
    /\ finished \/ chunks_left = <<>>
    /\ SseSet(Fallback(SseLocals))
    /\ sse_pc' = "returned"
    /\ UNCHANGED <<sse_sent, chunks_left>>
    /\ UNCHANGED <<grok_cfg, grok_pc, attempt, grok_log, grok_returned>>
    /\ UNCHANGED <<codecVars, handlerVars, codexVars, geminiVars, pipeVars>>

SseNext == SseReadChunk \/ SseReturn

vars == <<codecVars, toolVars>>

\* the tool runs an initial state may hold: one run of the Codex CLI, of the
\* Gemini CLI, of the Grok streamer, of its reader of a body or of a CLI with its pipes, or none
NoRun == [codex |-> None, gemini |-> None, grok |-> None, pipes |-> None, sse |-> None]

CodexRuns(options) == {[NoRun EXCEPT !.codex = Some(o)] : o \in options}

GeminiRuns(options) == {[NoRun EXCEPT !.gemini = Some(o)] : o \in options}

GrokRuns(configs) == {[NoRun EXCEPT !.grok = Some(c)] : c \in configs}

PipeRuns(plans) == {[NoRun EXCEPT !.pipes = Some(p)] : p \in plans}

SseRuns(deliveries) == {[NoRun EXCEPT !.sse = Some(d)] : d \in deliveries}

\* the state before anything has run: a connection with its peer's stream, or
\* the idle transport; a tool call, or none; a tool run still to start, or none
Start(transport, calls, runs) ==
    /\ transport
    /\ call \in calls
    /\ reply = None
    /\ \E run \in runs :
          /\ CodexInit(run.codex)
          /\ GeminiInit(run.gemini)
          /\ GrokInit(run.grok)
          /\ PipesInit(run.pipes)
          /\ SseInit(run.sse)

\* a connection with both halves running
SpecConn == Start(ConnInit(ConnStreams), {None}, {NoRun}) /\ [][ConnNext]_vars

\* the read half of a connection, the write half idle
SpecDecode == Start(ConnInit(DecodeStreams), {None}, {NoRun}) /\ [][DecodeNext]_vars

\* encode, then decode with a fresh codec
SpecRoundTrip == Start(RoundTripInit, {None}, {NoRun}) /\ [][RoundTripNext]_vars

\* one run of the Codex CLI, from run's call to its return
SpecCodex == Start(ConnInit({<<>>}), {None}, CodexRuns(RunOptions)) /\ [][CodexNext]_vars

\* the start of a run: the command, the spawn, the prompt
SpecCodexSpawn ==
    Start(ConnInit({<<>>}), {None}, CodexRuns(SpawnOptions)) /\ [][CodexSpawnNext]_vars

\* one call of the codex tool
SpecCodexTool ==
    Start(ConnInit({<<>>}), {Some(c) : c \in CodexCalls}, {NoRun})
    /\ [][HandlerNext]_vars

\* one run of the Codex CLI whose child writes long assistant messages
SpecCodexText == Start(ConnInit({<<>>}), {None}, CodexRuns({BaseOptions})) /\ [][CodexTextNext]_vars

\* one run of the Codex CLI with a record of the stream its child writes
SpecCodexOrder ==
    Start(ConnInit({<<>>}), {None}, CodexRuns(OrderOptions)) /\ [][CodexOrderNext]_vars

\* one run of the Gemini CLI, from run's call to its return
SpecGemini == Start(ConnInit({<<>>}), {None}, GeminiRuns(GeminiOptions)) /\ [][GeminiNext]_vars

\* one call of the HTTP streamer
SpecGrok == Start(ConnInit({<<>>}), {None}, GrokRuns(GrokConfigs)) /\ [][GrokNext]_vars

\* one call of parse_streaming_response, the body arriving whole or line by line
SpecSse == Start(ConnInit({<<>>}), {None}, SseRuns(LineDeliveries)) /\ [][SseNext]_vars

\* one call of parse_streaming_response, the body arriving cut anywhere
SpecSseChunks == Start(ConnInit({<<>>}), {None}, SseRuns(ChunkDeliveries)) /\ [][SseNext]_vars

\* one run of either CLI, Codex or Gemini, from run's call to its return
CliNext == CodexNext \/ GeminiNext

SpecCli ==
    Start(ConnInit({<<>>}), {None}, CodexRuns(RunOptions) \cup GeminiRuns(GeminiOptions))
    /\ [][CliNext]_vars

\* one run of either CLI whose child fills all_messages
SpecCliBulk ==
    Start(ConnInit({<<>>}), {None}, CodexRuns(BulkOptions) \cup GeminiRuns(GeminiBulkOptions))
    /\ [][CliBulkNext]_vars

\* one run of the Codex CLI whose child fills all_messages and goes on writing
SpecCodexBulk ==
    Start(ConnInit({<<>>}), {None}, CodexRuns(BulkOptions)) /\ [][CodexBulkNext]_vars

\* one run of either CLI whose child fills the captured stderr
SpecCliStderr ==
    Start(ConnInit({<<>>}), {None}, CodexRuns({BaseOptions}) \cup GeminiRuns({GeminiBaseOptions}))
    /\ [][CliStderrNext]_vars

\* the state before a tool call is handled or, with no call, before gemini::run
\* is called as its tests call it
StartTools(transport, calls, runs) ==
    /\ transport
    /\ reply = None
    /\ \E s \in {[call |-> Some(c), run |-> NoRun] : c \in calls} \cup {[call |-> None, run |-> r] : r \in runs} :
          /\ call = s.call
          /\ CodexInit(s.run.codex)
          /\ GeminiInit(s.run.gemini)
          /\ GrokInit(s.run.grok)
          /\ PipesInit(s.run.pipes)
          /\ SseInit(s.run.sse)

\* one call of any tool, or one call of gemini::run
SpecTools ==
    StartTools(ConnInit({<<>>}), ToolCalls, GeminiRuns(GeminiOptions)) /\ [][ToolsNext]_vars

\* the read half of a connection whose peer sends LSP frames, sound and broken
SpecLsp ==
    Start(ConnInit(LspFrameStreams \cup BrokenLspStreams), {None}, {NoRun}) /\ [][LspNext]_vars

\* one run of either CLI in which run, once its timeout has elapsed, goes on
\* whenever it can: the awaited kill ends when the child's exit is observed, and
\* the five seconds' wait ends in any case. When the operating system ends a
\* killed child is left open.
SpecCliDeadline ==
    /\ Start(ConnInit({<<>>}), {None}, CodexRuns(RunOptions) \cup GeminiRuns(GeminiOptions))
    /\ [][CliNext]_vars
    /\ WF_vars(GeminiKillAwaited)
    /\ WF_vars(GeminiGraceWait)

\* one run of either CLI with its pipes. The runtime polls a task that can go
\* on: a drain whose pipe holds a line reads it in the end.
SpecPipes ==
    /\ Start(ConnInit({<<>>}), {None}, PipeRuns(PipePlans))
    /\ [][PipesNext]_vars
    /\ WF_vars(IoReadStdout)
    /\ WF_vars(IoReadStderr)
-----------------------------------------------------------------------------
(* The claims about the framing codec                                      *)

FirstNonWsIsBrace(s) ==
    LET i == FindByte(s, {b \in {s[j] : j \in 1..Len(s)} : ~IsAsciiWhitespace(b)})
    IN  i >= 0 /\ s[i + 1] = "{"

HasLspHeader(bytes) == StartsWith(bytes, CONTENT_LENGTH)

\* C1: on a connection whose inbound stream has "{" as its first non-whitespace
\* byte, the first decode call detects JsonLines, and every frame encoded after
\* the detection ends with \n and does not start with a Content-Length header.
C1_BracePeerIsAnsweredInJsonLines ==
    FirstNonWsIsBrace(stream) =>
        /\ IsSome(firstDecode) => rcodec.detected_format = Some("JsonLines")
        /\ IsSome(rcodec.detected_format) => rcodec.detected_format = Some("JsonLines")
        /\ \A i \in 1..Len(outbound) :
              IsSome(outbound[i].detected_at_call) =>
                  /\ EndsWith(outbound[i].bytes, <<LF>>)
                  /\ ~HasLspHeader(outbound[i].bytes)

C1_Witness ==
    /\ FirstNonWsIsBrace(stream)
    /\ IsSome(firstDecode)
    /\ \E i \in 1..Len(outbound) :
          /\ IsSome(outbound[i].detected_at_call)
          /\ outbound[i].read = Some("JsonLines")

\* C2: when the buffer of the first decode call begins with
\* Content-Length:<ws><n>\r\n\r\n<body>, len(body) = n, the call returns the one
\* message body parses to (the parse error when body is not JSON) and removes
\* exactly the header block and the n body bytes from the buffer.
C2_FirstLspFrameIsDecodedExactly ==
    IsSome(firstDecode) =>
        \A ws \in HeaderWs, body \in FrameBodies :
            StartsWith(Unwrap(firstDecode).before, LspFrameOf(ws, body)) =>
                /\ Unwrap(firstDecode).res = Deserialize(body)
                /\ Unwrap(firstDecode).after =
                       Drop(Unwrap(firstDecode).before, Len(LspFrameOf(ws, body)))

C2_Witness ==
    /\ IsSome(firstDecode)
    /\ StartsWith(Unwrap(firstDecode).before,
                  LspFrameOf(<<" ", " ">>, ToJson(IdObj(1))) \o <<"X">>)
    /\ Unwrap(firstDecode).res = OkSome(IdObj(1))
    /\ Unwrap(firstDecode).after = <<"X">>

\* C3: a value encoded in either format and decoded by a fresh codec, however
\* the bytes are delivered, comes back as the one decoded item, the fresh codec
\* detects the format it was encoded in, and nothing is left in the buffer.
C3_RoundTrip ==
    /\ rpc # "closed"
    /\ received # <<>> =>
          /\ received = <<outbound[1].item>>
          /\ rcodec.detected_format = wcodec.detected_format
    /\ (outbound # <<>> /\ inbound = <<>> /\ ~readable) =>
          /\ received = <<outbound[1].item>>
          /\ rbuf = <<>>

C3_Witness ==
    /\ wcodec.detected_format = Some("Lsp")
    /\ received = <<JStr(<<"a", "\n", "b">>)>>
    /\ inbound = <<>>
    /\ ~readable

FrameFormat(bytes) == IF HasLspHeader(bytes) THEN "Lsp" ELSE "JsonLines"

\* C4: a frame encoded after the read half detected F is in the format the
\* shared cell holds, which is F; it is in JsonLines instead only when the cell
\* was still unset at the read, or the read of the cell met lock contention.
C4_EncodeFollowsTheCell ==
    /\ IsSome(cell) => cell = rcodec.detected_format
    /\ \A i \in 1..Len(outbound) :
          IsSome(outbound[i].detected_at_call) =>
              \/ /\ outbound[i].read = outbound[i].detected_at_call
                 /\ FrameFormat(outbound[i].bytes) = Unwrap(outbound[i].detected_at_call)
                 /\ outbound[i].bytes = EncodeFrame(Unwrap(outbound[i].read), outbound[i].item)
              \/ /\ outbound[i].read = None
                 /\ outbound[i].bytes = EncodeFrame("JsonLines", outbound[i].item)

C4_Witness ==
    \E i \in 1..Len(outbound) :
        /\ outbound[i].detected_at_call = Some("Lsp")
        /\ outbound[i].read = Some("Lsp")
        /\ HasLspHeader(outbound[i].bytes)

\* C5: after the decoder's try_write on the shared cell failed, the next message
\* decoded while the lock is free stores the detected format into the cell.
C5_FailedStoreIsRetried ==
    retried => cell = rcodec.detected_format


\* the format the bytes s stand for: that of the first byte behind the leading
\* whitespace, undecided while there is none or a "C" has fewer than 15 bytes
FormatOfFirstByte(s) ==
    LET t == TrimStart(s)
    IN  IF t = <<>> THEN None
        ELSE IF Head(t) = "C"
        THEN IF StartsWith(t, CONTENT_LENGTH) THEN Some("Lsp")
             ELSE IF Len(t) < Len(CONTENT_LENGTH) THEN None
             ELSE Some("JsonLines")
        ELSE Some("JsonLines")

\* C23: detection decides on the first byte behind the leading whitespace: a
\* decode call on a buffer of whitespace only, or of a "C" with fewer than 15
\* bytes, returns need-more-data, keeps the buffer and detects nothing, so the
\* format a connection detects is that of its inbound stream, however the
\* stream is split across the decode calls.
C23_DetectionIgnoresTheSplit ==
    /\ IsSome(rcodec.detected_format) =>
           rcodec.detected_format = FormatOfFirstByte(stream)
    /\ (IsSome(firstDecode) /\ FormatOfFirstByte(Unwrap(firstDecode).before) = None) =>
           /\ Unwrap(firstDecode).res = OkNone
           /\ Unwrap(firstDecode).after = Unwrap(firstDecode).before

\* the frames the stream s is made of, if it is made of well-formed frames
IsFramed(s) == s \in LspFrameStreams

FramesOf(s) == CHOOSE frames \in LspFrameLists : StreamOf(frames) = s

\* the bytes of the first m frames
FrameEnd(frames, m) == Len(StreamOf(SubSeq(frames, 1, m)))

\* how many of the frames are whole within the first k bytes
WholeFrames(frames, k) ==
    Cardinality({m \in 1..Len(frames) : FrameEnd(frames, m) <= k})

\* the frames of the stream are decoded as C24 says
FramesAreDecoded ==
    LET frames == FramesOf(stream)
        delivered == Len(stream) - Len(inbound)
        n == Len(received)
        header == IF IsSome(rcodec.expected_content_length) /\ n < Len(frames)
                  THEN Len(frames[n + 1].header) ELSE 0
    IN  /\ rpc # "closed"
        /\ n <= WholeFrames(frames, delivered)
        /\ \A i \in 1..n : Deserialize(frames[i].body) = OkSome(received[i])
        /\ rpc = "idle" => Len(rbuf) = delivered - FrameEnd(frames, n) - header
        /\ IsSome(rcodec.expected_content_length) =>
               /\ n < Len(frames)
               /\ Unwrap(rcodec.expected_content_length) = Len(frames[n + 1].body)
        /\ (rpc = "idle" /\ ~readable) => n = WholeFrames(frames, delivered)

\* C24: for any concatenation of well-formed LSP frames, however it is split
\* into chunks, decode returns need-more-data until the header block and the
\* body of a frame are buffered and then yields the bodies of the frames in
\* order, taking for each frame its header block and Content-Length bytes from
\* the buffer; the headers other than Content-Length are ignored.
C24_LspFramesAreDecodedInOrder ==
    IsFramed(stream) => FramesAreDecoded

\* C24 for the streams whose first bytes are Content-Length:, which is what
\* detection takes for LSP framing
C24_LspFramesAreDecodedInOrderAmended ==
    (IsFramed(stream) /\ HasLspHeader(stream)) => FramesAreDecoded

C24_Witness ==
    /\ stream = StreamOf(<<LspFrame(<<ContentLengthLine(<<>>, 6)>>,
                                    <<"{", CR, LF, CR, LF, "}">>),
                           LspFrame(<<OtherHeaderLine, ContentLengthLine(<<>>, 2)>>,
                                    ToJson(EmptyObj))>>)
    /\ received = <<EmptyObj, EmptyObj>>
    /\ rbuf = <<>>
    /\ rpc = "idle"
    /\ IsSome(firstDecode)
    /\ Unwrap(firstDecode).res = OkNone

\* the buffer holds a complete header block in which no Content-Length header
\* has a base-10 unsigned integer as its value
BrokenHeaderBlock(buf) ==
    /\ FindSeq(buf, SEPARATOR) >= 0
    /\ LET lines == Lines(Take(buf, FindSeq(buf, SEPARATOR)))
       IN  \A i \in DOMAIN lines :
               StartsWith(Trim(lines[i]), CONTENT_LENGTH) =>
                   LET value == Trim(Drop(Trim(lines[i]), Len(CONTENT_LENGTH)))
                   IN  value = <<>> \/ \E j \in DOMAIN value : value[j] \notin DigitSet

\* C25: broken LSP framing is an error: once the format is Lsp, a decode call
\* that finds a complete header block without a Content-Length header, or with
\* a Content-Length value that is no base-10 unsigned integer, does not return
\* need-more-data and leave the block in the buffer.
C25_BrokenFramingIsAnError ==
    ~ /\ rcodec.detected_format = Some("Lsp")
      /\ rcodec.expected_content_length = None
      /\ rpc = "idle"
      /\ ~readable
      /\ BrokenHeaderBlock(rbuf)
-----------------------------------------------------------------------------
(* The claims about the Codex orchestrator                                 *)

\* a prompt of at most 800 bytes with no shell-unsafe character
ShellSafe(p) ==
    /\ StrLen(p) <= 800
    /\ \A i \in DOMAIN p : p[i].k \notin SPECIAL_CHARS

\* the last two arguments of the command
LastArgs(c) == <<c.args[Len(c.args) - 1], c.args[Len(c.args)]>>

\* C6: a prompt of at most 800 bytes without shell-unsafe characters, force_stdin
\* unset, is the last argument after "--" and stdin is null; for any other prompt,
\* and whenever force_stdin is set, stdin is piped, the last argument after "--" is
\* "-", and the prompt is what is written to stdin.
C6_PromptTakesTheRightPath ==
    IsSome(cmd) =>
        IF ~opts.force_stdin /\ ShellSafe(opts.prompt)
        THEN /\ LastArgs(Unwrap(cmd)) = <<Text("--", 2), opts.prompt>>
             /\ Unwrap(cmd).stdin = "null"
             /\ stdin_data = None
        ELSE /\ LastArgs(Unwrap(cmd)) = <<Text("--", 2), Text("-", 1)>>
             /\ Unwrap(cmd).stdin = "piped"
             /\ xpc = "draining" => IsSome(stdin_data)
             /\ \A w \in {stdin_data[i] : i \in DOMAIN stdin_data} :
                    w.error = "none" => w.written = opts.prompt

\* a prompt one byte over the limit has been written to the child's stdin
C6_Witness ==
    /\ xpc = "draining"
    /\ ~opts.force_stdin
    /\ StrLen(opts.prompt) = 801
    /\ \A i \in DOMAIN opts.prompt : opts.prompt[i].k \notin SPECIAL_CHARS
    /\ stdin_data = Some([written |-> opts.prompt, error |-> "none"])
    /\ Unwrap(cmd).stdin = "piped"

\* C8: a result returned by run with success = false has a non-empty error.
C8_FailureCarriesAnError ==
    \A ret \in {returned[i] : i \in DOMAIN returned} :
        ret.ok /\ ~ret.result.success =>
            IsSome(ret.result.error) /\ Unwrap(ret.result.error) # <<>>

\* the timeout that bounds the run: the request, 600 for none or 0, at most 3600
ClampedTimeout(t) ==
    IF t = None \/ t = Some(0) THEN 600
    ELSE IF Unwrap(t) > 3600 THEN 3600
    ELSE Unwrap(t)

\* C9: when the timeout elapses, run returns success = false, the error "Codex
\* execution timed out after N seconds" with N the clamped timeout, an empty
\* session_id, agent_messages and all_messages, and no warnings, whatever the
\* run had collected; the required fields are not enforced.
C9_TimeoutReplacesTheResult ==
    timed_out =>
        /\ IsSome(returned)
        /\ Unwrap(returned).ok
        /\ LET r == Unwrap(returned).result
           IN  /\ ~r.success
               /\ r.error = Some(Text("Codex execution timed out after ", 32)
                                 \o Number(ClampedTimeout(opts.timeout_secs))
                                 \o Text(" seconds", 8))
               /\ r.session_id = <<>>
               /\ r.agent_messages = <<>>
               /\ r.all_messages = <<>>
               /\ ~r.agent_messages_truncated
               /\ ~r.all_messages_truncated
               /\ r.warnings = None

\* the timeout, asked as 4000 seconds, elapses after the run has collected a
\* session id, an assistant message and a copy of an event
C9_Witness ==
    /\ timed_out
    /\ opts.timeout_secs = Some(4000)
    /\ result.session_id # <<>>
    /\ result.agent_messages # <<>>
    /\ result.all_messages # <<>>
    /\ xpc = "returned"

\* C10: once run has returned because the timeout elapsed, neither the child nor
\* any process the child started is still running.
C10_TimeoutKillsTheProcessTree ==
    timed_out => child # "running" /\ descendants # "running"

\* the environment grants a permission: its variable, trimmed and in lower case,
\* is a spelling of true
Granted(v) == IsSome(v) /\ to_ascii_lowercase(Trim(Unwrap(v))) \in TrueWords

\* C7: the options handed to codex::run have sandbox = DangerFullAccess only if
\* CODEX_ALLOW_DANGEROUS is granted, yolo only if CODEX_ALLOW_YOLO is granted and
\* skip_git_repo_check only if CODEX_ALLOW_SKIP_GIT_CHECK is granted; each request
\* that is not granted is downgraded by itself (DangerFullAccess to ReadOnly, the
\* flag cleared), the other requests kept, with one warning of its own, so that
\* three ungranted requests give ReadOnly, false, false and three warnings.
C7_UngrantedRequestsAreDowngraded ==
    \A r \in {reply[i] : i \in DOMAIN reply} :
        LET a == Unwrap(call).args
            env == Unwrap(call).env
            down == a.sandbox = "DangerFullAccess" /\ ~Granted(env.CODEX_ALLOW_DANGEROUS)
            no_yolo == a.yolo /\ ~Granted(env.CODEX_ALLOW_YOLO)
            no_skip == a.skip_git_repo_check /\ ~Granted(env.CODEX_ALLOW_SKIP_GIT_CHECK)
            given == {r.restriction_warnings[i] : i \in DOMAIN r.restriction_warnings}
        IN  \A o \in {r.handed[i] : i \in DOMAIN r.handed} :
                /\ o.sandbox = "DangerFullAccess" => Granted(env.CODEX_ALLOW_DANGEROUS)
                /\ o.yolo => Granted(env.CODEX_ALLOW_YOLO)
                /\ o.skip_git_repo_check => Granted(env.CODEX_ALLOW_SKIP_GIT_CHECK)
                /\ o.sandbox = IF down THEN "ReadOnly" ELSE a.sandbox
                /\ o.yolo = (a.yolo /\ ~no_yolo)
                /\ o.skip_git_repo_check = (a.skip_git_repo_check /\ ~no_skip)
                /\ DangerWarning \in given <=> down
                /\ YoloWarning \in given <=> no_yolo
                /\ SkipGitWarning \in given <=> no_skip
                /\ Len(r.restriction_warnings) = Cardinality(given)
                /\ given \subseteq {DangerWarning, YoloWarning, SkipGitWarning}
                /\ down /\ no_yolo /\ no_skip =>
                       /\ o.sandbox = "ReadOnly" /\ ~o.yolo /\ ~o.skip_git_repo_check
                       /\ Len(r.restriction_warnings) = 3

\* a call asking for DangerFullAccess, yolo and skip_git_repo_check with none of
\* them granted has reached codex::run
C7_Witness ==
    /\ IsSome(reply)
    /\ IsSome(Unwrap(reply).handed)
    /\ Unwrap(call).args.sandbox = "DangerFullAccess"
    /\ Unwrap(call).args.yolo
    /\ Unwrap(call).args.skip_git_repo_check
    /\ Unwrap(call).env.CODEX_ALLOW_DANGEROUS = Some(<<"0">>)
    /\ Unwrap(call).env.CODEX_ALLOW_YOLO = None
    /\ Unwrap(call).env.CODEX_ALLOW_SKIP_GIT_CHECK = Some(<<"m", "a", "y", "b", "e">>)
    /\ Unwrap(Unwrap(reply).handed).sandbox = "ReadOnly"
    /\ Len(Unwrap(reply).restriction_warnings) = 3
    /\ Unwrap(reply).kind = "ok"

\* what CODEX_DEFAULT_TIMEOUT stands for: its number when that is within 1..3600,
\* 3600 when it is larger, 600 when it is unset, empty, 0 or no number
EnvDefault(env_result) ==
    LET n == IF env_result.kind = "Ok" THEN ParseUsize(Trim(env_result.val)) ELSE None
    IN  IF n = None \/ n = Some(0) THEN 600
        ELSE IF Unwrap(n) > 3600 THEN 3600
        ELSE Unwrap(n)

\* C11: the timeout that bounds a Codex invocation is within 1..3600 seconds: a
\* request of None or 0 gives the default (600, or what CODEX_DEFAULT_TIMEOUT
\* resolves to), a request above 3600 gives 3600 with a warning, any other request
\* is kept, and every value of CODEX_DEFAULT_TIMEOUT resolves to a value within
\* 1..3600.
C11_TimeoutIsWithinBounds ==
    \A r \in {reply[i] : i \in DOMAIN reply} :
        \A o \in {r.handed[i] : i \in DOMAIN r.handed} :
            LET request == Unwrap(call).args.timeout_secs
                env_result == Unwrap(call).env.CODEX_DEFAULT_TIMEOUT
                resolved == resolve_timeout_from_env(env_result).value
                bound == normalize_timeout_secs(o.timeout_secs)
            IN  /\ bound \in 1..3600
                /\ o.timeout_secs = Some(bound)
                /\ resolved \in 1..3600
                /\ resolved = EnvDefault(env_result)
                /\ request \in {None, Some(0)} => bound = resolved
                /\ request \notin {None, Some(0)} /\ Unwrap(request) <= 3600 =>
                       bound = Unwrap(request)
                /\ request \notin {None, Some(0)} /\ Unwrap(request) > 3600 =>
                       /\ bound = 3600
                       /\ \E i \in DOMAIN r.security_warnings :
                              r.security_warnings[i] =
                                  Text("Timeout of ", 11) \o Number(Unwrap(request))
                                  \o Text(" seconds exceeds maximum of ", 28) \o Number(3600)
                                  \o Text(" seconds; capping to maximum", 28)

\* a call asking for 0 seconds, with CODEX_DEFAULT_TIMEOUT=9999, has reached
\* codex::run with a timeout of 3600 seconds
C11_Witness ==
    /\ IsSome(reply)
    /\ Unwrap(reply).kind = "ok"
    /\ Unwrap(call).args.timeout_secs = Some(0)
    /\ Unwrap(call).env.CODEX_DEFAULT_TIMEOUT.val = <<"9", "9", "9", "9">>
    /\ Unwrap(Unwrap(reply).handed).timeout_secs = Some(3600)

\* the results of the run: the one being built, and the one run returned
Results == {result} \cup {returned[i].result : i \in DOMAIN returned}

\* the fixed text that ends agent_messages once the cap is reached
Sentinel == Text("\n[... Agent messages truncated due to size limit ...]", 53)

\* C12: in every state of a Codex invocation, after any sequence of agent_message
\* events, agent_messages is at most 10 MiB plus the length of the truncation
\* sentinel long.
C12_AgentMessagesAreBounded ==
    \A r \in Results : StrLen(r.agent_messages) <= 10485760 + StrLen(Sentinel)

\* C13: whenever agent_messages_truncated is true, agent_messages ends with the
\* truncation sentinel, holds the sentinel once, and so holds no assistant text
\* after it.
C13_TruncationEndsWithTheSentinel ==
    \A r \in Results :
        r.agent_messages_truncated =>
            /\ r.agent_messages # <<>>
            /\ <<r.agent_messages[Len(r.agent_messages)]>> = Sentinel
            /\ Cardinality({i \in DOMAIN r.agent_messages :
                                <<r.agent_messages[i]>> = Sentinel}) = 1

\* nine long messages and two short ones were gathered, the twelfth message met
\* the cap, and a thirteenth, short enough to fit, was read after that
C13_Witness ==
    /\ result.agent_messages_truncated
    /\ stdout_lines = 13
    /\ StrLen(result.agent_messages) = 9 * 1048000 + 2 * 5751 + 10 + 53

\* C18: after stdout's end of file, a non-zero exit code (or none) gives success =
\* false and the error recorded before, or else an "exit code" message, followed
\* by "\nStderr: " and the captured stderr when that is not empty; a zero exit
\* code with captured stderr gives the stderr as warnings and leaves success and
\* error as they were (the check of the required fields aside, which acts when
\* there is neither a session id nor an error).
C18_ExitStatusIsJudged ==
    \A ret \in {returned[i] : i \in DOMAIN returned} :
        ret.ok /\ ~timed_out =>
            LET r == ret.result
                tail == IF stderr_output # <<>>
                        THEN Text("\nStderr: ", 9) \o stderr_output ELSE <<>>
            IN  IF exit_code # Some(0)
                THEN /\ ~r.success
                     /\ IF IsSome(result.error)
                        THEN r.error = Some(Unwrap(result.error) \o tail)
                        ELSE r.error = Some(Text("codex command failed with exit code: ", 37)
                                            \o DebugCode(exit_code) \o tail)
                ELSE /\ stderr_output # <<>> =>
                            /\ IsSome(r.warnings)
                            /\ SubSeq(Unwrap(r.warnings), 1, Len(stderr_output)) = stderr_output
                     /\ result.session_id # <<>> \/ IsSome(result.error) =>
                            r.success = result.success /\ r.error = result.error

\* the child wrote a line that is no JSON and a line on stderr, and exited with
\* code 1
C18_Witness ==
    /\ IsSome(returned)
    /\ Unwrap(returned).ok
    /\ ~timed_out
    /\ exit_code = Some(1)
    /\ IsSome(result.error)
    /\ stderr_output # <<>>

\* the stream read is made of JSON object lines, none of a fail or error type
CleanStream ==
    \A i \in DOMAIN stdout_seen :
        /\ IsSome(stdout_seen[i].parsed)
        /\ Unwrap(stdout_seen[i].parsed).is_map
        /\ \A t \in {Unwrap(stdout_seen[i].parsed).type[j] :
                         j \in DOMAIN Unwrap(stdout_seen[i].parsed).type} :
               /\ ~Contains(t, <<"f", "a", "i", "l">>)
               /\ ~Contains(t, <<"e", "r", "r", "o", "r">>)

\* the events of the stream, in order
StreamEvents == [i \in DOMAIN stdout_seen |-> Unwrap(stdout_seen[i].parsed)]

\* the non-empty thread ids of the stream, in order
StreamThreadIds ==
    LET HasId(ev) == IsSome(ev.thread_id) /\ Unwrap(ev.thread_id) # <<>>
        with_id == SelectSeq(StreamEvents, HasId)
    IN  [i \in DOMAIN with_id |-> Unwrap(with_id[i].thread_id)]

\* the texts of the stream's agent_message items, in order
StreamTexts ==
    LET IsAgentMessage(ev) == ev.item_type = Some("agent_message") /\ IsSome(ev.item_text)
        messages == SelectSeq(StreamEvents, IsAgentMessage)
    IN  [i \in DOMAIN messages |-> Unwrap(messages[i].item_text)]

\* what C16 says of the result r of a run, agent_messages being the texts joined
RunFollowsTheStream(r, joined) ==
    /\ r.success
    /\ r.session_id = StreamThreadIds[Len(StreamThreadIds)]
    /\ r.agent_messages = joined
    /\ r.all_messages = SubSeq(StreamEvents, 1, Len(r.all_messages))
    /\ ~r.all_messages_truncated => r.all_messages = StreamEvents

\* the runs C16 is about: the stream is clean and gives a session id, the child
\* exited with code 0, and run_internal returned
CleanRuns ==
    { ret \in {returned[i] : i \in DOMAIN returned} :
        /\ ret.ok
        /\ ~timed_out
        /\ exit_code = Some(0)
        /\ CleanStream
        /\ StreamThreadIds # <<>> }

-----------------------------------------------------------------------------
(* Claims about both CLI orchestrators.                                     *)

\* the text holds the message of the SESSION_ID check, of either CLI
MentionsSessionId(error) ==
    /\ IsSome(error)
    /\ \E i \in 1..Len(Unwrap(error)) :
          Unwrap(error)[i].k \in {"Failed to get SESSION_ID from the codex session.",
                                  "Failed to get 'SESSION_ID' from the gemini session."}

\* a Codex run has returned past the wait for its child; the result before the
\* required fields were checked
CodexCompleted == returned # None /\ Unwrap(returned).ok /\ ~timed_out

CodexJudged == JudgeExit(result, ExitStatus(exit_code), stderr_output)

\* a Gemini run has returned past the wait for its child; the result before the
\* required fields were checked
GeminiCompleted == gemini_returned # None /\ Unwrap(gemini_returned).ok

GeminiJudged ==
    GeminiJudgeExit(gemini_result, ExitStatus(gemini_exit), gemini_stderr.stderr_output,
                    non_json_lines, valid_json_seen)

\* the SESSION_ID check as Codex makes it: with no session id and no error recorded
\* the run fails with the check's message, and an error recorded stays as it is
CodexChecksSessionId ==
    CodexCompleted =>
        LET checked == Unwrap(returned).result
        IN  /\ (CodexJudged.session_id = <<>> /\ CodexJudged.error = None)
                  => (~checked.success /\ MentionsSessionId(checked.error))
            /\ CodexJudged.error # None => checked.error = CodexJudged.error

\* The original statement. C17: for both Codex and Gemini, a run that completes
\* (not by timeout) with an empty session_id and no error recorded before fails with
\* an error that holds the SESSION_ID message, and an error recorded before is left
\* unchanged by the check.
C17_SessionIdIsRequired ==
    /\ CodexChecksSessionId
    /\ GeminiCompleted =>
          LET checked == Unwrap(gemini_returned).result
          IN  /\ (GeminiJudged.session_id = <<>> /\ GeminiJudged.error = None)
                    => (~checked.success /\ MentionsSessionId(checked.error))
              /\ GeminiJudged.error # None => checked.error = GeminiJudged.error

\* C17 (amended): for both Codex and Gemini, a run that completes (not by timeout)
\* with an empty session_id and no error recorded before fails with an error that
\* holds the SESSION_ID message. An error recorded before is left unchanged by
\* Codex; Gemini keeps it unchanged only if no required field is missing, and
\* otherwise puts a newline and the messages of its checks after it, the
\* SESSION_ID message among them when session_id is empty.
C17_SessionIdIsRequiredAmended ==
    /\ CodexChecksSessionId
    /\ GeminiCompleted =>
          LET checked == Unwrap(gemini_returned).result
              missing == \/ GeminiJudged.session_id = <<>>
                         \/ /\ GeminiJudged.agent_messages = <<>>
                            /\ (GeminiJudged.return_all_messages
                                   => GeminiJudged.all_messages = <<>>)
          IN  /\ GeminiJudged.session_id = <<>>
                    => (~checked.success /\ MentionsSessionId(checked.error))
              /\ (GeminiJudged.error # None /\ ~missing)
                    => checked.error = GeminiJudged.error
              /\ (GeminiJudged.error # None /\ missing)
                    => /\ StartsWith(Unwrap(checked.error), Unwrap(GeminiJudged.error) \o NL)
                       /\ Len(Unwrap(checked.error)) > Len(Unwrap(GeminiJudged.error)) + 1

\* a Gemini run whose stream recorded an error and gave no session id has
\* completed, and the check has put its messages after that error
C17_Witness ==
    /\ GeminiCompleted
    /\ GeminiJudged.error = Some(Text("gemini error: ", 14) \o Text("boom", 4))
    /\ GeminiJudged.session_id = <<>>
    /\ MentionsSessionId(Unwrap(gemini_returned).result.error)
    /\ Unwrap(gemini_returned).result.error # GeminiJudged.error

\* the sum of the serialized sizes of the events
RECURSIVE SerializedSize(_)
SerializedSize(events) ==
    IF events = <<>> THEN 0 ELSE Head(events).size + SerializedSize(Tail(events))

\* the all_messages of a Codex result holds no more items than the limit asked
\* for (DEFAULT_MESSAGE_LIMIT if none) or MAX_MESSAGE_LIMIT allow, and no more
\* bytes than MAX_ALL_MESSAGES_SIZE
CodexAllMessagesBounded(r, limit) ==
    /\ Len(r.all_messages) <= (IF limit = None THEN DEFAULT_MESSAGE_LIMIT ELSE Unwrap(limit))
    /\ Len(r.all_messages) <= MAX_MESSAGE_LIMIT
    /\ SerializedSize(r.all_messages) <= MAX_ALL_MESSAGES_SIZE

\* C14: in every state of an invocation, all_messages holds at most
\* min(return_all_messages_limit or 10000, 50000) items and the serialized sizes of
\* its items add up to at most 50 MiB, in the result being built and in the result
\* returned; Gemini's all_messages holds at most 10000 items.
C14_AllMessagesAreBounded ==
    /\ CodexAllMessagesBounded(result, opts.return_all_messages_limit)
    /\ \A ret \in {returned[i] : i \in DOMAIN returned} :
          CodexAllMessagesBounded(ret.result, opts.return_all_messages_limit)
    /\ Len(gemini_result.all_messages) <= MAX_MESSAGES_LIMIT
    /\ \A ret \in {gemini_returned[i] : i \in DOMAIN gemini_returned} :
          Len(ret.result.all_messages) <= MAX_MESSAGES_LIMIT

\* a Codex run under the default limit has returned: its child wrote 51 events,
\* 50 of them fill all_messages to 50 of 1048575 bytes, and the last was left out
C14_Witness ==
    /\ CodexCompleted
    /\ opts.return_all_messages_limit = None
    /\ stdout_lines = 51
    /\ Len(Unwrap(returned).result.all_messages) = 50
    /\ SerializedSize(Unwrap(returned).result.all_messages) = 50 * 1048575
    /\ Unwrap(returned).result.all_messages_truncated

\* C15: the captured stderr of an invocation is never longer than the cap, 1 MiB
\* for Codex and 100 KiB for Gemini, whatever stderr lines the child writes.
C15_StderrIsBounded ==
    /\ StrLen(stderr_output) <= MAX_STDERR_SIZE
    /\ StrLen(gemini_stderr.stderr_output) <= MAX_STDERR_BYTES

-----------------------------------------------------------------------------
(* Claims about the HTTP streamer.                                          *)

\* what came back to a request is a failure that may be retried: a network error,
\* or one of the six statuses
RetryableFailure(sent) ==
    sent.kind = "network" \/ sent.status \in {408, 429, 500, 502, 503, 504}

\* C19: the HTTP streamer sends at most max_attempts + 1 requests per call; a 2xx
\* response or a non-retryable status ends the call on that attempt with no further
\* request; a retryable status or a network error before the last attempt is
\* followed by the next attempt, and on the last attempt the call returns that
\* last error.
C19_RetryBudgetIsKept ==
    grok_cfg # None =>
        LET budget == Unwrap(grok_cfg).max_attempts + 1
        IN  /\ Len(grok_log) <= budget
            /\ \A i \in 1..Len(grok_log) :
                  IF ~RetryableFailure(grok_log[i].sent)
                  THEN i = Len(grok_log) /\ grok_pc = "returned"
                  ELSE IF i < budget
                  THEN i < Len(grok_log) \/ (grok_pc = "sending" /\ attempt = i)
                  ELSE /\ grok_pc = "returned"
                       /\ ~Unwrap(grok_returned).ok
                       /\ Unwrap(grok_returned).status = grok_log[i].sent.status

\* the sum of f over the numbers lo .. hi
RECURSIVE SumOver(_, _, _)
SumOver(f, lo, hi) == IF lo > hi THEN 0 ELSE f[lo] + SumOver(f, lo + 1, hi)

\* the expected backoff of attempt k is at most that of attempt k + 1: the means of
\* the wait over the jitters of each, compared after cross-multiplication
ExpectedWaitGrows(k, multiplier, max_wait) ==
    LET Total(a) ==
            SumOver([jitter \in JitterRange(a, multiplier) |->
                        exponential_backoff_with_jitter(a, multiplier, max_wait, jitter)],
                    0, multiplier * powi2(a) - 1)
        Draws(a) == Cardinality(JitterRange(a, multiplier))
    IN  Total(k) * Draws(k + 1) <= Total(k + 1) * Draws(k)

\* the wait slept after request i was taken from a Retry-After header
FromRetryAfter(i) ==
    /\ grok_log[i].sent.kind = "response"
    /\ grok_log[i].sent.status = 429
    /\ IsSome(grok_log[i].sent.retry_after)
    /\ IsSome(parse_retry_after(Unwrap(grok_log[i].sent.retry_after)))

\* The original statement. C20: every wait slept between two attempts of the HTTP
\* streamer is at most max_wait seconds, and the expected wait is non-decreasing in
\* the attempt index.
C20_WaitsAreCapped ==
    grok_cfg # None =>
        /\ \A i \in 1..Len(grok_log) :
              IsSome(grok_log[i].wait) => Unwrap(grok_log[i].wait) <= Unwrap(grok_cfg).max_wait
        /\ \A k \in 0..(attempt - 1) :
              ExpectedWaitGrows(k, Unwrap(grok_cfg).multiplier, Unwrap(grok_cfg).max_wait)

\* C20 (amended): every wait slept between two attempts is at most max_wait
\* seconds, unless it follows a 429 whose Retry-After header can be parsed: that
\* wait is the header's value, seconds or the time to its date and never negative,
\* whatever max_wait is. The expected backoff is non-decreasing in the attempt
\* index.
C20_WaitsAreCappedAmended ==
    grok_cfg # None =>
        /\ \A i \in 1..Len(grok_log) :
              IsSome(grok_log[i].wait) =>
                  IF FromRetryAfter(i)
                  THEN /\ grok_log[i].wait = parse_retry_after(Unwrap(grok_log[i].sent.retry_after))
                       /\ Unwrap(grok_log[i].wait) >= 0
                  ELSE Unwrap(grok_log[i].wait) <= Unwrap(grok_cfg).max_wait
        /\ \A k \in 0..(attempt - 1) :
              ExpectedWaitGrows(k, Unwrap(grok_cfg).multiplier, Unwrap(grok_cfg).max_wait)

\* a call with max_wait 3 has slept a backoff that the cap cut to 3 seconds after a
\* 503, and 60 seconds after a 429 that said Retry-After: 60
C20_Witness ==
    /\ grok_cfg # None
    /\ Unwrap(grok_cfg).max_wait = 3
    /\ Unwrap(grok_cfg).multiplier = 2
    /\ Len(grok_log) >= 3
    /\ grok_log[2].sent.status = 503
    /\ grok_log[2].wait = Some(3)
    /\ grok_log[3].sent.status = 429
    /\ grok_log[3].wait = Some(60)


-----------------------------------------------------------------------------
(* The claims about the tool handlers                                      *)

\* the arguments of the call c do not pass the validation of its tool
ValidationFails(c) ==
    IF c.tool = "codex"
    THEN \/ c.args.prompt = <<>>
         \/ c.args.cd = <<>>
         \/ c.cd_entry.kind # "dir"
         \/ \E i \in DOMAIN c.args.image : c.args.image[i].kind # "file"
    ELSE IF c.tool = "gemini"
    THEN \/ Trim(c.args.prompt) = <<>>
         \/ IsSome(c.args.model) /\ Trim(Unwrap(c.args.model)) = <<>>
         \/ IsSome(c.args.timeout_secs) /\ Unwrap(c.args.timeout_secs) \notin 1..3600
    ELSE IF c.tool = "gemini_image" THEN Trim(c.args.prompt) = <<>>
    ELSE IF c.tool = "web_search" THEN Trim(c.args.query) = <<>>
    ELSE Trim(c.args.url) = <<>>

\* no child process has been spawned and no HTTP request has been sent
NothingStarted ==
    /\ xpc = "idle"
    /\ child = "none"
    /\ gemini_child = "none"
    /\ grok_pc = "idle"
    /\ grok_log = <<>>

\* C21: when the arguments of a tool call do not pass validation (an empty
\* prompt, query or url, an empty cd, a Gemini timeout outside 1..3600, a
\* whitespace-only model, a working directory or image path that is missing or
\* of the wrong kind), the handler answers with an error and nothing else
\* happens: no run is called, no child is spawned, no HTTP request is sent.
\* gemini::run, called with such options, returns an error without a child.
C21_FailedValidationHasNoEffect ==
    /\ \A c \in {call[i] : i \in DOMAIN call} :
          ValidationFails(c) =>
              /\ NothingStarted
              /\ gemini_pc = "idle"
              /\ \A r \in {reply[i] : i \in DOMAIN reply} :
                    /\ r.kind \in {"invalid_params", "internal_error"}
                    /\ r.handed = None
                    /\ r.output = None
    /\ \A o \in {gemini_opts[i] : i \in DOMAIN gemini_opts} :
          (\/ Trim(o.prompt) = <<>>
           \/ IsSome(o.timeout_secs) /\ Unwrap(o.timeout_secs) \notin 1..3600) =>
              /\ gemini_child = "none"
              /\ gemini_pc \in {"init", "returned"}
              /\ gemini_pc = "returned" => ~Unwrap(gemini_returned).ok

C21_Witness ==
    /\ IsSome(call)
    /\ Unwrap(call).tool = "gemini"
    /\ Unwrap(call).gemini_available
    /\ Unwrap(call).args.prompt = <<"h", "i">>
    /\ Unwrap(call).args.model = Some(<<"p", "r", "o">>)
    /\ Unwrap(call).args.timeout_secs = Some(3601)
    /\ IsSome(reply)
    /\ Unwrap(reply).kind = "invalid_params"
    /\ NothingStarted

-----------------------------------------------------------------------------
(* More claims about the runs of the CLIs                                  *)

\* the stdout loop of a run that returns all messages reads an event
ReadsAnEvent ==
    /\ xpc = "draining"
    /\ stdout_lines' = stdout_lines + 1
    /\ opts.return_all_messages
    /\ ~parse_error_seen

\* the event ev fits into all_messages: the item count is below the limit asked
\* for (10000 if none) and below 50000, and the serialized bytes stay within 50 MiB
FitsAllMessages(r, ev, limit) ==
    /\ Len(r.all_messages) < (IF limit = None THEN 10000 ELSE Unwrap(limit))
    /\ Len(r.all_messages) < 50000
    /\ SerializedSize(r.all_messages) + ev.size <= 50 * 1024 * 1024

\* the step copies ev into all_messages if and only if it fits, and sets the
\* flag if and only if it does not
CopiesIfItFits(ev) ==
    LET fits == FitsAllMessages(result, ev, opts.return_all_messages_limit)
    IN  /\ result'.all_messages =
               IF fits THEN Append(result.all_messages, ev) ELSE result.all_messages
        /\ result'.all_messages_truncated = (result.all_messages_truncated \/ ~fits)

\* C26: with return_all_messages set, each event the stdout loop parses is
\* copied into all_messages if and only if, at that moment, the item count is
\* below min(limit, 50000), the limit being 10000 if none is given, and the
\* serialized bytes with the event's stay within 50 MiB; an event that is not
\* copied sets all_messages_truncated, and nothing else does.
C26_EventsAreCopiedWithinTheCaps ==
    [][ReadsAnEvent => \E line \in BulkLines : CopiesIfItFits(Unwrap(line.parsed))]_vars

\* a run with a limit above 50000 has left out the 51st event for its size
C26_Witness ==
    /\ xpc = "draining"
    /\ opts.return_all_messages_limit = Some(MAX_MESSAGE_LIMIT + 1)
    /\ stdout_lines = 51
    /\ Len(result.all_messages) = 50
    /\ all_messages_size = 50 * 1048575
    /\ result.all_messages_truncated

\* the error holds a parse error recorded by record_parse_error
MentionsParseError(error) ==
    /\ IsSome(error)
    /\ \E i \in 1..Len(Unwrap(error)) : Unwrap(error)[i].k = "JSON parse error: "

\* the stdout loop reads a line that is no JSON, the first it fails to parse
ReadsFirstBadLine ==
    /\ xpc = "draining"
    /\ stdout_lines' = stdout_lines + 1
    /\ ~parse_error_seen
    /\ parse_error_seen'
    /\ MentionsParseError(result'.error)

\* the stdout loop reads a line after a parse error was recorded
ReadsAfterParseError ==
    /\ xpc = "draining"
    /\ stdout_lines' = stdout_lines + 1
    /\ parse_error_seen
    /\ MentionsParseError(result.error)

\* C27: the first stdout line that fails to parse adds the parse error and the
\* line to result.error, behind the error there was, sets success to false and
\* kills the child; every line read after it leaves session_id, agent_messages
\* and all_messages as they are and the parse error in result.error, and a run
\* that returns without a timeout returns the parse error in its error.
C27_ParseErrorEndsTheStream ==
    [][/\ ReadsFirstBadLine =>
              /\ ~result'.success
              /\ child' # "running"
              /\ IsSome(result.error) =>
                     SubSeq(Unwrap(result'.error), 1, Len(Unwrap(result.error)))
                         = Unwrap(result.error)
       /\ ReadsAfterParseError =>
              /\ result'.session_id = result.session_id
              /\ result'.agent_messages = result.agent_messages
              /\ result'.all_messages = result.all_messages
              /\ ~result'.success
              /\ MentionsParseError(result'.error)
       /\ (returned = None /\ returned' # None /\ ~timed_out'
           /\ parse_error_seen /\ MentionsParseError(result.error)) =>
              /\ Unwrap(returned').ok
              /\ MentionsParseError(Unwrap(returned').result.error)]_vars

-----------------------------------------------------------------------------
\* run's timeout has elapsed and run has not returned yet
GeminiPastDeadline == gemini_pc \in {"killing", "grace"}

\* C30: once the timeout has elapsed run returns, whatever the child does: Codex
\* drops the child and returns at once, Gemini sends the kill and waits for the
\* exit to be observed no longer than the five seconds of grace.
C30_RunReturnsOnceTheTimerHasFired ==
    /\ timed_out ~> (xpc = "returned")
    /\ GeminiPastDeadline ~> (gemini_pc = "returned")

-----------------------------------------------------------------------------
\* write_all waits for room in a stdin pipe the child is not reading
ParentBlockedOnStdin ==
    /\ io_pc = "writing"
    /\ prompt_left > 0
    /\ kid.state = "running"
    /\ Len(stdin_pipe) = PipeCapacity

\* the child waits for room in its stdout pipe
KidBlockedOnStdout ==
    /\ kid.state = "running"
    /\ kid.todo \in StdoutKinds
    /\ kid.stdout_open
    /\ Len(stdout_pipe) = PipeCapacity

\* the child waits for room in its stderr pipe
KidBlockedOnStderr ==
    /\ kid.state = "running"
    /\ kid.todo \in StderrKinds
    /\ ~StderrDropped
    /\ Len(stderr_pipe) = PipeCapacity

\* C28: the prompt is written while stdout and stderr are read, so run is never
\* waiting to write to stdin while the child waits to write to a full stdout or
\* stderr pipe that nobody reads.
C28_NoDeadlockOnThePipes ==
    ~(/\ ParentBlockedOnStdin
      /\ \/ KidBlockedOnStdout /\ stdout_reading # "reading"
         \/ KidBlockedOnStderr /\ stderr_reading # "reading")

-----------------------------------------------------------------------------
\* a read of stdout or stderr has failed
ReadFailed == stdout_reading = "failed" \/ stderr_reading = "failed"

\* a cap was reached or a line error recorded, the reading has not failed, and
\* the child waits for room in a full pipe
KidBlockedPastACap ==
    /\ io_pc \in {"draining", "waiting"}
    /\ flagged # {}
    /\ ~ReadFailed
    /\ KidBlockedOnStdout \/ KidBlockedOnStderr

-----------------------------------------------------------------------------
\* a text holds the piece that starts with k
Mentions(text, k) == \E i \in 1..Len(text) : text[i].k = k

\* run_internal has returned a result whose last error is an over-long stdout line
ReturnedAfterOverflow ==
    /\ xpc = "returned"
    /\ ~timed_out
    /\ IsSome(returned)
    /\ Unwrap(returned).ok
    /\ IsSome(result.error)
    /\ Mentions(Unwrap(result.error), "Output line exceeded ")

\* C31: a Codex run that ends on an over-long stdout line skips the final check,
\* as a timeout does: its result has neither the 'Failed to get SESSION_ID' error
\* nor the 'No agent_messages' warning.
C31_OverflowSkipsValidation ==
    ReturnedAfterOverflow =>
        LET r == Unwrap(returned).result
        IN  /\ ~Mentions(Unwrap(r.error), "Failed to get SESSION_ID from the codex session.")
            /\ IsSome(r.warnings) => ~Mentions(Unwrap(r.warnings), "No agent_messages returned; ...")

-----------------------------------------------------------------------------
\* the type names a failure: it contains "fail" or "error"
NamesFailure(type) ==
    Contains(type, <<"f", "a", "i", "l">>) \/ Contains(type, <<"e", "r", "r", "o", "r">>)

\* the message a failure line carries: error.message or, failing that, the
\* top-level message
FailureMessage(error_message, message) == IF IsSome(error_message) THEN error_message ELSE message

\* what the Codex loop makes of a failure line it reads now
CodexFailureLineIsRecorded ==
    \A line \in StdoutLines :
        (/\ xpc = "draining"
         /\ ~parse_error_seen
         /\ IsSome(line.parsed)
         /\ read_line_with_limit(line.n, MAX_LINE_LENGTH).truncated = FALSE
         /\ \/ IsSome(Unwrap(line.parsed).type) /\ NamesFailure(Unwrap(Unwrap(line.parsed).type))
            \/ Unwrap(line.parsed).error_obj)
        => LET ev == Unwrap(line.parsed)
               st == StdoutStep([result |-> result, all_messages_size |-> all_messages_size,
                                 parse_error_seen |-> parse_error_seen, kill |-> FALSE],
                                line, opts)
               msg == FailureMessage(ev.error_message, ev.message)
           IN  /\ ~st.result.success
               /\ IsSome(msg) => st.result.error = Some(Text("codex error: ", 13) \o Unwrap(msg))

\* what the Gemini loop makes of a failure line it reads now
GeminiFailureLineIsRecorded ==
    \A line \in GeminiLines :
        (/\ gemini_pc = "reading"
         /\ IsSome(line.parsed)
         /\ \/ NamesFailure(to_ascii_lowercase(Unwrap(line.parsed).type))
            \/ Unwrap(line.parsed).error = "object")
        => LET ev == Unwrap(line.parsed)
               r == process_json_line(ev, gemini_result, Unwrap(gemini_opts).return_all_messages)
               msg == FailureMessage(ev.error_message, ev.message)
           IN  /\ ~r.success
               /\ IsSome(msg) => r.error = Some(Text("gemini error: ", 14) \o Unwrap(msg))

\* C32: a parsed stdout line whose type contains "fail" or "error" (in any case
\* for Gemini), or that has an error object, sets success to false and error to
\* error.message or, when there is none, to the top-level message.
C32_FailureLinesAreRecorded == CodexFailureLineIsRecorded /\ GeminiFailureLineIsRecorded

-----------------------------------------------------------------------------
\* C33: a write of the prompt that fails with BrokenPipe or NotConnected, the
\* child having gone before it read its stdin, does not end the run, which goes
\* on to read stdout and stderr and to wait for the exit status; this holds for
\* Codex and for Gemini.
C33_BrokenPipeIsTolerated == io_returned # "BrokenPipe"

\* a call that returned a network, connect or read-timeout error, met while sending
\* the request or while reading the streamed body
ReturnedNetworkError ==
    /\ grok_pc = "returned"
    /\ IsSome(grok_returned)
    /\ ~Unwrap(grok_returned).ok
    /\ Unwrap(grok_returned).err \in {"stream", "API request failed after all retries"}

\* C34: a network, connect or read-timeout error of an attempt that still has retry
\* budget is followed by a backoff and another attempt, whether it occurs while
\* sending the request or while reading the streamed response body; the error is
\* returned only when the budget is exhausted
C34_NetworkErrorsAreRetriedWithinBudget ==
    ReturnedNetworkError => attempt = Unwrap(grok_cfg).max_attempts

\* the texts of the lines up to and including the first that ends the stream
RECURSIVE ContentUpToTheEnd(_)
ContentUpToTheEnd(lines) ==
    IF lines = <<>> THEN <<>>
    ELSE Head(lines).text \o (IF Head(lines).ends THEN <<>> ELSE ContentUpToTheEnd(Tail(lines)))

ReturnedForAStream ==
    sse_pc = "returned" /\ IsSome(sse_sent) /\ Unwrap(sse_sent).lines # <<>>

\* C35: the content returned by the SSE parser is the in-order concatenation of
\* the string values choices[0].delta.content of the data: lines up to and
\* including the first terminating line, a data: line with [DONE] or a delta chunk
\* whose choices[0].finish_reason is non-null; no line after it contributes
C35_ContentIsTheDeltasUpToTheEnd ==
    ReturnedForAStream => sse_content = ContentUpToTheEnd(Unwrap(sse_sent).lines)


\* a call that returned after the server sent one completion object
ReturnedForACompletion ==
    sse_pc = "returned" /\ IsSome(sse_sent) /\ IsSome(Unwrap(sse_sent).message)

\* C36: when the body has been fully drained and no delta content was
\* accumulated, the non-streaming parse is attempted: for a body that is a single
\* JSON object with choices[0].message.content = s, with or without a trailing
\* newline, on one or several lines, the content returned is s
C36_CompletionObjectIsParsed ==
    ReturnedForACompletion => sse_content = Unwrap(Unwrap(sse_sent).message)

\* C40: the content returned by the SSE parser depends only on the concatenated
\* bytes of the body, not on how the body is split into chunks: a body cut into
\* chunks anywhere, inside a line or inside a character of several bytes, yields
\* the content it yields in one chunk
C40_ContentIsIndependentOfTheChunks ==
    (sse_pc = "returned" /\ IsSome(sse_sent)) =>
        sse_content = parse_streaming_response(Whole(Unwrap(sse_sent).bytes))

\* a result is successful, names a session and holds no error
Resumable(res) == res.success => (StrLen(res.session_id) > 0 /\ res.error = None)

\* C37: every result returned by run, of Codex or of Gemini, with success = true
\* has a non-empty session_id and no error, so that a successful call can be
\* resumed with the SESSION_ID returned
C37_SuccessCanBeResumed ==
    /\ (IsSome(returned) /\ Unwrap(returned).ok) => Resumable(Unwrap(returned).result)
    /\ (IsSome(gemini_returned) /\ Unwrap(gemini_returned).ok)
          => Resumable(Unwrap(gemini_returned).result)

\* a Codex run has returned a successful result after its child wrote lines and
\* exited with code 0
C37_Witness ==
    /\ CodexCompleted
    /\ Unwrap(returned).result.success
    /\ StrLen(Unwrap(returned).result.session_id) > 0
    /\ stdout_lines > 0
    /\ exit_code = Some(0)

\* C38: within one invocation success is monotone: once a step has set it to
\* false (a fail or error line, a parse error, an over-long line, a non-zero
\* exit, the check of the required fields) no later step sets it back to true,
\* in the result being built and in the result returned from it
C38_SuccessIsMonotone ==
    [][/\ ~result.success => ~result'.success
       /\ ~gemini_result.success => ~gemini_result'.success
       /\ (returned = None /\ IsSome(returned') /\ Unwrap(returned').ok /\ ~result.success)
             => ~Unwrap(returned').result.success
       /\ (gemini_returned = None /\ IsSome(gemini_returned') /\ Unwrap(gemini_returned').ok
              /\ ~gemini_result.success)
             => ~Unwrap(gemini_returned').result.success]_vars

\* a Codex run has returned a failure that a line of the stream recorded: the
\* stream named a session and the child's exit code was 0
C38_Witness ==
    /\ CodexCompleted
    /\ ~result.success
    /\ ~Unwrap(returned).result.success
    /\ StrLen(result.session_id) > 0
    /\ stdout_lines > 1
    /\ exit_code = Some(0)

\* C39: once all_messages_truncated has been set in a Codex invocation,
\* all_messages is never appended to again: the stored events are a prefix of the
\* sequence of parsed JSON-object events, not a subsequence with gaps
C39_NothingIsStoredAfterTruncation ==
    [][result.all_messages_truncated => result'.all_messages = result.all_messages]_vars

=============================================================================
